---- MODULE Spec2Model ----
(***************************************************************************)
(* Ledger engine of the ESP32 blockchain telemetry firmware (v1.3, the     *)
(* SPIFFS version): block/transaction model, chain validation, the bounded *)
(* transaction pool, the mining trigger and the save/load/clear of the     *)
(* ledger, pool and metadata files.                                        *)
(*                                                                         *)
(* Every handler of the firmware is an operator from a machine state (a    *)
(* record of the firmware's globals and of the three SPIFFS files) to the  *)
(* machine state after the handler returned; the actions apply a handler   *)
(* to the current values of the variables.                                 *)
(***************************************************************************)
EXTENDS Integers, Sequences, FiniteSets, TLC

\* ------------------------------------------------------------ configuration
\* The firmware's capacities, scaled down so that the circular block buffer
\* wraps, the pool fills and the peer list fills within the explored runs.
\* The firmware has MAX_BLOCKS 50, TX_POOL_SIZE 20, MAX_PEERS 10 and an
\* emergency margin of 4 (the literal in TX_POOL_SIZE - 4).
MAX_BLOCKS == 2
TX_POOL_SIZE == 3
EMERGENCY_MARGIN == 1
MAX_PEERS == 2

\* Transactions referenced per block: 4 in the firmware, 1 here, so that a
\* block leaves pending transactions unreferenced as soon as two are pooled.
MAX_TX_PER_BLOCK == 1

\* 30 seconds per block, as in the firmware.
BLOCK_TIME_MS == 30000

\* The clock advances in steps of one block time; millis() restarts at 0 on
\* every boot.
TickMs == BLOCK_TIME_MS

\* Bounds of the exploration: ticks of uptime per boot, blocks ever produced.
MaxNow == 1
MaxTotal == 3

\* Ticks of uptime in the runs that follow the validator turn through its
\* slots.
MaxTurnNow == 3

\* The telemetry payloads that sensors produce.
TxData == {1, 2}

\* The SHA-256 of the empty string: a digest that is no block's hash.
BogusHash == [zero |-> FALSE, pre |-> << >>]

Min(a, b) == IF a < b THEN a ELSE b

\* ------------------------------------------------------------ data model
Roles == {"SENSOR_NODE", "VALIDATOR_NODE", "ARCHIVE_NODE"}

MessageTypes ==
    {"MSG_NEW_TELEMETRY", "MSG_NEW_BLOCK", "MSG_REQUEST_CHAIN", "MSG_PEER_ANNOUNCE"}

\* myAddress after snprintf into char[17]: the 17 characters of the MAC string
\* cut to 16, here "24:6F:28:AA:BB:C".
myAddress == "24:6F:28:AA:BB:C"

\* The same 16 characters as character codes.
myAddressBytes == <<50, 52, 58, 54, 70, 58, 50, 56, 58, 65, 65, 58, 66, 66, 58, 67>>

\* A Hash32 is either 32 zero bytes (memset 0) or the SHA-256 of a byte
\* string, kept as that string: a digest without collisions, and no digest
\* of data is all zero.
ZeroHash == [zero |-> TRUE, pre |-> << >>]

calculateSHA256Binary(data) == [zero |-> FALSE, pre |-> data]

\* The digest of "%s|%.2f|%.2f|%.2f|%u" over a reading.
calculateTxHash(data) == calculateSHA256Binary(<<data>>)

Transaction(data) == [data |-> data, txHash |-> calculateTxHash(data)]

\* Block newBlock = {0}
ZeroBlock ==
    [index |-> 0, timestamp |-> 0,
     txHashes |-> [i \in 1..MAX_TX_PER_BLOCK |-> ZeroHash], txCount |-> 0,
     previousHash |-> ZeroHash, blockHash |-> ZeroHash,
     validator |-> "", nonce |-> 0]

\* The digest over index, timestamp, validator, nonce, previousHash and the
\* first txCount transaction hashes.
calculateBlockHash(block) ==
    calculateSHA256Binary(
        <<block.index, block.timestamp, block.validator, block.nonce,
          block.previousHash>>
        \o SubSeq(block.txHashes, 1, block.txCount))

\* ------------------------------------------------------------ files
NoChainFile == [exists |-> FALSE, count |-> 0, blocks |-> << >>]
NoMetaFile == [exists |-> FALSE, blockCount |-> 0, totalBlocks |-> 0, lastValidator |-> ""]
NoPoolFile == [exists |-> FALSE, count |-> 0, txs |-> << >>]

\* ------------------------------------------------------------ state
VARIABLES
    phase,              \* "boot": setup() has not run; "loop": loop() is running
    now,                \* uptime in ticks: millis() = now * TickMs
    MY_ROLE,
    blockchain,         \* Block blockchain[MAX_BLOCKS], indexed 0..MAX_BLOCKS-1
    blockCount,
    totalBlocks,
    txPool,             \* txPool[0..txPoolCount-1], oldest first
    peerList,           \* peerList[0..peerCount-1]
    lastBlockTime,      \* in ticks
    spiffsInitialized,
    fileChain,          \* /blockchain.dat
    fileMeta,           \* /metadata.dat
    filePool,           \* /txpool.dat
    roleIn,             \* what assignNodeRole reads: ROLE_STRATEGY, myAddress,
                        \* the "nodeId" key of the preferences (0: not set)
    neighbour,          \* a second device in radio range: its machine state,
                        \* its last handler, and the packets on the air
    tasks,              \* where loop() and the receive callback stand inside
                        \* addToTxPool and validatorTask, with the pool's memory
    ev                  \* the handler that ran last, with what it returned

vars ==
    <<phase, now, MY_ROLE, blockchain, blockCount, totalBlocks, txPool, peerList,
      lastBlockTime, spiffsInitialized, fileChain, fileMeta, filePool, roleIn,
      neighbour, tasks, ev>>

txPoolCount == Len(txPool)
peerCount == Len(peerList)

millis(t) == t * TickMs

\* What a handler leaves behind besides the globals: its return value, the
\* validation error, the reason of the mining trigger with the number of
\* pending transactions it logs, the candidate block it handled and the index
\* of the block header it broadcast (-1: none).
NoOut ==
    [ret |-> FALSE, err |-> "none", reason |-> "", pending |-> 0,
     block |-> ZeroBlock, bcast |-> -1]

\* The machine state a handler runs on.
Cur ==
    [MY_ROLE |-> MY_ROLE, blockchain |-> blockchain, blockCount |-> blockCount,
     totalBlocks |-> totalBlocks, txPool |-> txPool, peerList |-> peerList,
     lastBlockTime |-> lastBlockTime, spiffsInitialized |-> spiffsInitialized,
     fileChain |-> fileChain, fileMeta |-> fileMeta, filePool |-> filePool,
     out |-> NoOut]

\* The globals at power-on: zero-initialised RAM; the files are on flash.
PowerOn(s) ==
    [s EXCEPT !.MY_ROLE = "SENSOR_NODE",
              !.blockchain = [i \in 0..(MAX_BLOCKS - 1) |-> ZeroBlock],
              !.blockCount = 0, !.totalBlocks = 0, !.txPool = << >>,
              !.peerList = << >>, !.lastBlockTime = 0,
              !.spiffsInitialized = FALSE, !.out = NoOut]

Ret(s, r) == [s EXCEPT !.out.ret = r]

\* ------------------------------------------------------------ SPIFFS
\* SPIFFS.exists(path): a file is seen only on a mounted file system.
Exists(s, file) == s.spiffsInitialized /\ file.exists

saveMetadata(s) ==
    IF ~s.spiffsInitialized THEN Ret(s, FALSE)
    ELSE Ret([s EXCEPT !.fileMeta =
                 [exists |-> TRUE, blockCount |-> s.blockCount,
                  totalBlocks |-> s.totalBlocks,
                  lastValidator |->
                      IF s.blockCount > 0
                      THEN s.blockchain[(s.blockCount - 1) % MAX_BLOCKS].validator
                      ELSE myAddress]],
             TRUE)

loadMetadata(s) ==
    IF ~s.spiffsInitialized THEN Ret(s, FALSE)
    ELSE IF ~Exists(s, s.fileMeta) THEN Ret(s, FALSE)
    ELSE Ret([s EXCEPT !.blockCount = s.fileMeta.blockCount,
                       !.totalBlocks = s.fileMeta.totalBlocks],
             TRUE)

\* The count, then blockchain[i] for i < blockCount && i < MAX_BLOCKS in array
\* order, then the metadata.
saveBlockchain(s) ==
    IF ~s.spiffsInitialized THEN Ret(s, FALSE)
    ELSE saveMetadata(
             [s EXCEPT !.fileChain =
                 [exists |-> TRUE, count |-> s.blockCount,
                  blocks |-> [i \in 1..Min(s.blockCount, MAX_BLOCKS) |->
                                 s.blockchain[i - 1]]]])

\* Mutant: the counters come from the ledger file alone, not the metadata.
loadBlockchain_noMetadata(s) ==
    IF ~s.spiffsInitialized THEN Ret(s, FALSE)
    ELSE IF ~Exists(s, s.fileChain) THEN Ret(s, FALSE)
    ELSE LET savedBlockCount == s.fileChain.count
             blocksToLoad == Min(savedBlockCount, MAX_BLOCKS)
             have == Min(blocksToLoad, Len(s.fileChain.blocks))
             read == [i \in 0..(MAX_BLOCKS - 1) |->
                         IF i < have THEN s.fileChain.blocks[i + 1]
                         ELSE s.blockchain[i]]
         IN  IF have < blocksToLoad
             THEN Ret([s EXCEPT !.blockchain = read], FALSE)
             ELSE Ret([s EXCEPT !.blockchain = read,
                                !.blockCount = blocksToLoad,
                                !.totalBlocks = savedBlockCount], TRUE)

\* Reads the count and min(count, MAX_BLOCKS) records into blockchain[0..];
\* a record the file does not hold is a short read, which returns false with
\* the records read so far left in the array and the counters untouched.
loadBlockchain(s) ==
    IF ~s.spiffsInitialized THEN Ret(s, FALSE)
    ELSE IF ~Exists(s, s.fileChain) THEN Ret(s, FALSE)
    ELSE LET savedBlockCount == s.fileChain.count
             blocksToLoad == Min(savedBlockCount, MAX_BLOCKS)
             have == Min(blocksToLoad, Len(s.fileChain.blocks))
             read == [i \in 0..(MAX_BLOCKS - 1) |->
                         IF i < have THEN s.fileChain.blocks[i + 1]
                         ELSE s.blockchain[i]]
         IN  IF have < blocksToLoad
             THEN Ret([s EXCEPT !.blockchain = read], FALSE)
             ELSE loadMetadata([s EXCEPT !.blockchain = read,
                                         !.blockCount = blocksToLoad,
                                         !.totalBlocks = savedBlockCount])

saveTxPool(s) ==
    IF ~s.spiffsInitialized \/ Len(s.txPool) = 0 THEN Ret(s, FALSE)
    ELSE Ret([s EXCEPT !.filePool =
                 [exists |-> TRUE, count |-> Len(s.txPool), txs |-> s.txPool]],
             TRUE)

loadTxPool(s) ==
    IF ~s.spiffsInitialized THEN Ret(s, FALSE)
    ELSE IF ~Exists(s, s.filePool) THEN Ret(s, FALSE)
    ELSE Ret([s EXCEPT !.txPool =
                 SubSeq(s.filePool.txs, 1, Min(s.filePool.count, TX_POOL_SIZE))],
             TRUE)

\* if(blockCount > 0) saveBlockchain(); if(txPoolCount > 0) saveTxPool();
periodicSaveTask(s) ==
    LET a == IF s.blockCount > 0 THEN saveBlockchain(s) ELSE Ret(s, TRUE)
        b == IF Len(a.txPool) > 0 THEN saveTxPool(a) ELSE Ret(a, TRUE)
    IN  Ret(b, a.out.ret /\ b.out.ret)

\* Mutant: the metadata file is left in place.
clearStorage_keepsMetadata(s) ==
    [s EXCEPT !.fileChain = IF Exists(s, s.fileChain) THEN NoChainFile ELSE @,
              !.filePool = IF Exists(s, s.filePool) THEN NoPoolFile ELSE @,
              !.blockCount = 0, !.totalBlocks = 0, !.txPool = << >>]

\* Removes the three files and zeroes the three counters; the arrays keep
\* their contents.
clearStorage(s) ==
    [s EXCEPT !.fileChain = IF Exists(s, s.fileChain) THEN NoChainFile ELSE @,
              !.filePool = IF Exists(s, s.filePool) THEN NoPoolFile ELSE @,
              !.fileMeta = IF Exists(s, s.fileMeta) THEN NoMetaFile ELSE @,
              !.blockCount = 0, !.totalBlocks = 0, !.txPool = << >>]

\* ------------------------------------------------------------ blockchain
\* Mutant: the genesis block is built in RAM and not saved.
createGenesisBlock_noSave(s, t) ==
    LET fields == [ZeroBlock EXCEPT !.index = 0,
                                    !.timestamp = millis(t) \div 1000,
                                    !.txCount = 0, !.previousHash = ZeroHash,
                                    !.validator = myAddress, !.nonce = 0]
        genesis == [fields EXCEPT !.blockHash = calculateBlockHash(fields)]
    IN  Ret([s EXCEPT !.blockchain[0] = genesis,
                      !.blockCount = 1, !.totalBlocks = 1], TRUE)

createGenesisBlock(s, t) ==
    LET fields == [ZeroBlock EXCEPT !.index = 0,
                                    !.timestamp = millis(t) \div 1000,
                                    !.txCount = 0, !.previousHash = ZeroHash,
                                    !.validator = myAddress, !.nonce = 0]
        genesis == [fields EXCEPT !.blockHash = calculateBlockHash(fields)]
    IN  saveBlockchain([s EXCEPT !.blockchain[0] = genesis,
                                 !.blockCount = 1, !.totalBlocks = 1])

\* Mutant: the index is not compared with totalBlocks.
validateBlock_noIndexCheck(s, block) ==
    IF /\ s.blockCount > 0
       /\ block.previousHash #
              s.blockchain[(s.blockCount - 1) % MAX_BLOCKS].blockHash
    THEN "LinkageMismatch"
    ELSE IF calculateBlockHash(block) # block.blockHash THEN "HashMismatch"
    ELSE "ok"

\* Mutant: the block hash is not recomputed.
validateBlock_noHashCheck(s, block) ==
    IF block.index # s.totalBlocks THEN "IndexMismatch"
    ELSE IF /\ s.blockCount > 0
            /\ block.previousHash #
                   s.blockchain[(s.blockCount - 1) % MAX_BLOCKS].blockHash
         THEN "LinkageMismatch"
    ELSE "ok"

\* Mutant: previousHash is not compared with the head's hash.
validateBlock_noLinkageCheck(s, block) ==
    IF block.index # s.totalBlocks THEN "IndexMismatch"
    ELSE IF calculateBlockHash(block) # block.blockHash THEN "HashMismatch"
    ELSE "ok"

\* "ok", or the check that failed, in the order the firmware makes them.
validateBlock(s, block) ==
    IF block.index # s.totalBlocks THEN "IndexMismatch"
    ELSE IF /\ s.blockCount > 0
            /\ block.previousHash #
                   s.blockchain[(s.blockCount - 1) % MAX_BLOCKS].blockHash
         THEN "LinkageMismatch"
    ELSE IF calculateBlockHash(block) # block.blockHash THEN "HashMismatch"
    ELSE "ok"

\* Mutant: the pool is reset before the block is validated.
addBlock_clearsPoolFirst(s, newBlock) ==
    LET err == validateBlock(s, newBlock)
        t == [s EXCEPT !.out.block = newBlock, !.out.err = err, !.txPool = << >>]
    IN  IF err # "ok" THEN Ret(t, FALSE)
        ELSE Ret(saveBlockchain(
                     [t EXCEPT !.blockchain[s.blockCount % MAX_BLOCKS] = newBlock,
                               !.blockCount = s.blockCount + 1,
                               !.totalBlocks = s.totalBlocks + 1]),
                 TRUE)

\* Mutant: only the transactions the block references leave the pool.
addBlock_dropsOnlyMined(s, newBlock) ==
    LET err == validateBlock(s, newBlock)
        t == [s EXCEPT !.out.block = newBlock, !.out.err = err]
    IN  IF err # "ok" THEN Ret(t, FALSE)
        ELSE Ret(saveBlockchain(
                     [t EXCEPT !.blockchain[s.blockCount % MAX_BLOCKS] = newBlock,
                               !.blockCount = s.blockCount + 1,
                               !.totalBlocks = s.totalBlocks + 1,
                               !.txPool = SubSeq(s.txPool, newBlock.txCount + 1,
                                                 Len(s.txPool))]),
                 TRUE)

\* Mutant: once the buffer is full the newest block is overwritten.
addBlock_overwritesNewest(s, newBlock) ==
    LET err == validateBlock(s, newBlock)
        t == [s EXCEPT !.out.block = newBlock, !.out.err = err]
        index == IF s.blockCount >= MAX_BLOCKS
                 THEN (s.blockCount - 1) % MAX_BLOCKS
                 ELSE s.blockCount
    IN  IF err # "ok" THEN Ret(t, FALSE)
        ELSE Ret(saveBlockchain(
                     [t EXCEPT !.blockchain[index] = newBlock,
                               !.blockCount = s.blockCount + 1,
                               !.totalBlocks = s.totalBlocks + 1,
                               !.txPool = << >>]),
                 TRUE)

\* Mutant: the block is stored one slot too far in the circular buffer.
addBlock_wrongSlot(s, newBlock) ==
    LET err == validateBlock(s, newBlock)
        t == [s EXCEPT !.out.block = newBlock, !.out.err = err]
    IN  IF err # "ok" THEN Ret(t, FALSE)
        ELSE Ret(saveBlockchain(
                     [t EXCEPT !.blockchain[(s.blockCount + 1) % MAX_BLOCKS] = newBlock,
                               !.blockCount = s.blockCount + 1,
                               !.totalBlocks = s.totalBlocks + 1,
                               !.txPool = << >>]),
                 TRUE)

\* Mutant: the retained-count counter stops at MAX_BLOCKS.
addBlock_capsCount(s, newBlock) ==
    LET err == validateBlock(s, newBlock)
        t == [s EXCEPT !.out.block = newBlock, !.out.err = err]
    IN  IF err # "ok" THEN Ret(t, FALSE)
        ELSE Ret(saveBlockchain(
                     [t EXCEPT !.blockchain[s.blockCount % MAX_BLOCKS] = newBlock,
                               !.blockCount = IF s.blockCount < MAX_BLOCKS
                                              THEN s.blockCount + 1
                                              ELSE MAX_BLOCKS,
                               !.totalBlocks = s.totalBlocks + 1,
                               !.txPool = << >>]),
                 TRUE)

addBlock(s, newBlock) ==
    LET err == validateBlock(s, newBlock)
        t == [s EXCEPT !.out.block = newBlock, !.out.err = err]
    IN  IF err # "ok" THEN Ret(t, FALSE)
        ELSE Ret(saveBlockchain(
                     [t EXCEPT !.blockchain[s.blockCount % MAX_BLOCKS] = newBlock,
                               !.blockCount = s.blockCount + 1,
                               !.totalBlocks = s.totalBlocks + 1,
                               !.txPool = << >>]),
                 TRUE)

\* Mutant: the newest pending transactions are taken, not the oldest.
createBlock_newestFirst(s, t, nonce) ==
    LET txCount == Min(Len(s.txPool), MAX_TX_PER_BLOCK)
        fields ==
            [ZeroBlock EXCEPT
                !.index = s.totalBlocks,
                !.timestamp = millis(t) \div 1000,
                !.txCount = txCount,
                !.txHashes = [i \in 1..MAX_TX_PER_BLOCK |->
                                 IF i <= txCount
                                 THEN s.txPool[Len(s.txPool) - txCount + i].txHash
                                 ELSE ZeroHash],
                !.previousHash =
                    IF s.blockCount > 0
                    THEN s.blockchain[(s.blockCount - 1) % MAX_BLOCKS].blockHash
                    ELSE ZeroHash,
                !.validator = myAddress,
                !.nonce = nonce]
    IN  [fields EXCEPT !.blockHash = calculateBlockHash(fields)]

\* Mutant: the candidate links to the slot the append is about to fill.
createBlock_linksNextSlot(s, t, nonce) ==
    LET txCount == Min(Len(s.txPool), MAX_TX_PER_BLOCK)
        fields ==
            [ZeroBlock EXCEPT
                !.index = s.totalBlocks,
                !.timestamp = millis(t) \div 1000,
                !.txCount = txCount,
                !.txHashes = [i \in 1..MAX_TX_PER_BLOCK |->
                                 IF i <= txCount THEN s.txPool[i].txHash
                                 ELSE ZeroHash],
                !.previousHash =
                    IF s.blockCount > 0
                    THEN s.blockchain[s.blockCount % MAX_BLOCKS].blockHash
                    ELSE ZeroHash,
                !.validator = myAddress,
                !.nonce = nonce]
    IN  [fields EXCEPT !.blockHash = calculateBlockHash(fields)]

createBlock(s, t, nonce) ==
    LET txCount == Min(Len(s.txPool), MAX_TX_PER_BLOCK)
        fields ==
            [ZeroBlock EXCEPT
                !.index = s.totalBlocks,
                !.timestamp = millis(t) \div 1000,
                !.txCount = txCount,
                !.txHashes = [i \in 1..MAX_TX_PER_BLOCK |->
                                 IF i <= txCount THEN s.txPool[i].txHash
                                 ELSE ZeroHash],
                !.previousHash =
                    IF s.blockCount > 0
                    THEN s.blockchain[(s.blockCount - 1) % MAX_BLOCKS].blockHash
                    ELSE ZeroHash,
                !.validator = myAddress,
                !.nonce = nonce]
    IN  [fields EXCEPT !.blockHash = calculateBlockHash(fields)]

\* ------------------------------------------------------------ pool
\* Mutant: the capacity test is off by one.
addToTxPool_offByOne(s, tx) ==
    IF Len(s.txPool) > TX_POOL_SIZE THEN Ret(s, FALSE)
    ELSE Ret([s EXCEPT !.txPool = Append(s.txPool, tx)], TRUE)

addToTxPool(s, tx) ==
    IF Len(s.txPool) >= TX_POOL_SIZE THEN Ret(s, FALSE)
    ELSE Ret([s EXCEPT !.txPool = Append(s.txPool, tx)], TRUE)

\* ------------------------------------------------------------ roles
\* A uint32_t as its two 16-bit halves <<high, low>>, so that no intermediate
\* value leaves the range of the checker's integers.
U32Times31Plus(h, byte) ==
    LET low == h[2] * 31 + byte
    IN  <<(h[1] * 31 + (low \div 65536)) % 65536, low % 65536>>

U32Mod100(h) == ((h[1] % 100) * (65536 % 100) + (h[2] % 100)) % 100

RECURSIVE RollingHash(_, _, _)
\* hash = hash * 31 + macAddr[i] in uint32_t, from character i on.
RollingHash(macAddr, i, hash) ==
    IF i > Len(macAddr) THEN hash
    ELSE RollingHash(macAddr, i + 1, U32Times31Plus(hash, macAddr[i]))

\* Mutant: a role value of 30 still makes a validator.
assignRoleByMAC_validatorAt30(macAddr) ==
    LET roleValue == U32Mod100(RollingHash(macAddr, 1, <<0, 0>>))
    IN  IF roleValue <= 30 THEN "VALIDATOR_NODE"
        ELSE IF roleValue < 95 THEN "SENSOR_NODE"
        ELSE "ARCHIVE_NODE"

assignRoleByMAC(macAddr) ==
    LET roleValue == U32Mod100(RollingHash(macAddr, 1, <<0, 0>>))
    IN  IF roleValue < 30 THEN "VALIDATOR_NODE"
        ELSE IF roleValue < 95 THEN "SENSOR_NODE"
        ELSE "ARCHIVE_NODE"

assignRoleByJoinOrder(nodeNumber) ==
    IF nodeNumber <= 2 THEN "VALIDATOR_NODE"
    ELSE IF nodeNumber % 10 = 0 THEN "ARCHIVE_NODE"
    ELSE "SENSOR_NODE"

RoleStrategies ==
    {"STRATEGY_MAC_BASED", "STRATEGY_FIRST_COME", "STRATEGY_RUNTIME_ELECT",
     "STRATEGY_ALL_VALIDATOR"}

\* The switch of assignNodeRole on the inputs in (strategy, macAddr, nodeId)
\* with peers entries in the peer list: the role, and the "nodeId" key of the
\* preferences afterwards.  prefsOk: preferences.begin succeeded.
assignNodeRoleUnder(in, peers, prefsOk) ==
    CASE in.strategy = "STRATEGY_MAC_BASED" ->
             [role |-> assignRoleByMAC(in.macAddr), nodeId |-> in.nodeId]
      [] in.strategy = "STRATEGY_FIRST_COME" ->
             IF ~prefsOk THEN [role |-> "SENSOR_NODE", nodeId |-> in.nodeId]
             ELSE LET nodeId == IF in.nodeId = 0 THEN peers + 1 ELSE in.nodeId
                  IN  [role |-> assignRoleByJoinOrder(nodeId), nodeId |-> nodeId]
      [] in.strategy = "STRATEGY_ALL_VALIDATOR" ->
             [role |-> "VALIDATOR_NODE", nodeId |-> in.nodeId]
      [] in.strategy = "STRATEGY_RUNTIME_ELECT" ->
             [role |-> assignRoleByMAC(in.macAddr), nodeId |-> in.nodeId]

\* ROLE_STRATEGY is STRATEGY_MAC_BASED and nothing assigns it.
assignNodeRole(s) == [s EXCEPT !.MY_ROLE = assignRoleByMAC(myAddressBytes)]

\* The console characters that change state; 'l' and '?' only print.
Commands == {"v", "s", "a", "c", "w"}

\* The three role commands among them.
RoleCommands == {"v", "s", "a"}

checkRoleChangeCommand(s, cmd) ==
    CASE cmd = "v" -> [s EXCEPT !.MY_ROLE = "VALIDATOR_NODE"]
      [] cmd = "s" -> [s EXCEPT !.MY_ROLE = "SENSOR_NODE"]
      [] cmd = "a" -> [s EXCEPT !.MY_ROLE = "ARCHIVE_NODE"]
      [] cmd = "c" -> clearStorage(s)
      [] cmd = "w" -> saveTxPool(saveBlockchain(s))
      [] OTHER -> s

\* ------------------------------------------------------------ network
\* Mutant: an unknown sender is added without the test for room.
onDataReceived_noRoomCheck(s, mac, type, tx) ==
    LET peerExists == \E i \in 1..Len(s.peerList) : s.peerList[i] = mac
        t == IF ~peerExists
             THEN [s EXCEPT !.peerList = Append(s.peerList, mac)]
             ELSE s
    IN  IF type = "MSG_NEW_TELEMETRY" THEN addToTxPool(t, tx) ELSE t

\* Mutant: every packet's payload is pooled, whatever the message type.
onDataReceived_poolsEveryPacket(s, mac, type, tx) ==
    LET peerExists == \E i \in 1..Len(s.peerList) : s.peerList[i] = mac
        t == IF ~peerExists /\ Len(s.peerList) < MAX_PEERS
             THEN [s EXCEPT !.peerList = Append(s.peerList, mac)]
             ELSE s
    IN  addToTxPool(t, tx)

\* Mutant: a received block header advances the ledger's counters.
onDataReceived_countsHeader(s, mac, type, tx) ==
    LET peerExists == \E i \in 1..Len(s.peerList) : s.peerList[i] = mac
        t == IF ~peerExists /\ Len(s.peerList) < MAX_PEERS
             THEN [s EXCEPT !.peerList = Append(s.peerList, mac)]
             ELSE s
    IN  IF type = "MSG_NEW_TELEMETRY" THEN addToTxPool(t, tx)
        ELSE IF type = "MSG_NEW_BLOCK"
             THEN [t EXCEPT !.totalBlocks = @ + 1]
        ELSE t

onDataReceived(s, mac, type, tx) ==
    LET peerExists == \E i \in 1..Len(s.peerList) : s.peerList[i] = mac
        t == IF ~peerExists /\ Len(s.peerList) < MAX_PEERS
             THEN [s EXCEPT !.peerList = Append(s.peerList, mac)]
             ELSE s
    IN  IF type = "MSG_NEW_TELEMETRY" THEN addToTxPool(t, tx) ELSE t

\* ------------------------------------------------------------ consensus
\* Mutant: the modulus is the number of peers, not of nodes.
isMyTurnAt_modPeerCount(peers, ms) ==
    IF peers = 0 THEN TRUE
    ELSE LET interval == BLOCK_TIME_MS \div 1000
             currentSlot == (ms \div 1000) \div interval
             myId == myAddressBytes[16] % peers
             validatorSlot == currentSlot % peers
         IN  myId = validatorSlot

\* isMyTurnToValidate() with peerCount = peers and millis() = ms.
isMyTurnAt(peers, ms) ==
    IF peers = 0 THEN TRUE
    ELSE LET interval == BLOCK_TIME_MS \div 1000
             currentSlot == (ms \div 1000) \div interval
             myId == myAddressBytes[16] % (peers + 1)
             validatorSlot == currentSlot % (peers + 1)
         IN  myId = validatorSlot

isMyTurnToValidate(s, t) == isMyTurnAt(Len(s.peerList), millis(t))

\* Mutant: the emergency trigger waits for this node's turn as well.
MiningReason_emergencyOnTurn(s, t) ==
    IF Len(s.txPool) >= TX_POOL_SIZE - EMERGENCY_MARGIN /\ isMyTurnToValidate(s, t)
    THEN "Emergency"
    ELSE IF /\ millis(t) - millis(s.lastBlockTime) >= BLOCK_TIME_MS
            /\ Len(s.txPool) > 0
            /\ isMyTurnToValidate(s, t)
         THEN "Scheduled"
    ELSE ""

\* Mutant: the scheduled trigger does not ask whose turn it is.
MiningReason_ignoresTurn(s, t) ==
    IF Len(s.txPool) >= TX_POOL_SIZE - EMERGENCY_MARGIN THEN "Emergency"
    ELSE IF /\ millis(t) - millis(s.lastBlockTime) >= BLOCK_TIME_MS
            /\ Len(s.txPool) > 0
         THEN "Scheduled"
    ELSE ""

\* Mutant: the scheduled trigger waits until more than a block time has
\* passed.
MiningReason_strictlyLater(s, t) ==
    IF Len(s.txPool) >= TX_POOL_SIZE - EMERGENCY_MARGIN THEN "Emergency"
    ELSE IF /\ millis(t) - millis(s.lastBlockTime) > BLOCK_TIME_MS
            /\ Len(s.txPool) > 0
            /\ isMyTurnToValidate(s, t)
         THEN "Scheduled"
    ELSE ""

\* "Emergency", "Scheduled" or "": the trigger that sets shouldMine.
MiningReason(s, t) ==
    IF Len(s.txPool) >= TX_POOL_SIZE - EMERGENCY_MARGIN THEN "Emergency"
    ELSE IF /\ millis(t) - millis(s.lastBlockTime) >= BLOCK_TIME_MS
            /\ Len(s.txPool) > 0
            /\ isMyTurnToValidate(s, t)
         THEN "Scheduled"
    ELSE ""

\* The body of the mining branch once the candidate is built:
\* if(addBlock(&newBlock)) { broadcastBlock(&newBlock); lastBlockTime = now; }
\* Mutant: the header is broadcast and the time stamped whatever addBlock
\* returned.
MineBlock_broadcastsAlways(s, t, newBlock) ==
    LET a == addBlock(s, newBlock)
    IN  [a EXCEPT !.out.bcast = newBlock.index, !.lastBlockTime = t]

MineBlock(s, t, newBlock) ==
    LET a == addBlock(s, newBlock)
    IN  IF a.out.ret
        THEN [a EXCEPT !.out.bcast = newBlock.index, !.lastBlockTime = t]
        ELSE a

\* Mutant: the role test is the one of sensorTask (everyone but the archive).
validatorTask_sensorsMine(s, t, nonce) ==
    IF s.MY_ROLE = "ARCHIVE_NODE" THEN s
    ELSE LET reason == MiningReason(s, t)
             u == [s EXCEPT !.out.reason = reason]
         IN  IF reason # "" /\ Len(s.txPool) > 0
             THEN MineBlock([u EXCEPT !.out.pending = Len(s.txPool)], t,
                            createBlock(u, t, nonce))
             ELSE u

validatorTask(s, t, nonce) ==
    IF s.MY_ROLE # "VALIDATOR_NODE" THEN s
    ELSE LET reason == MiningReason(s, t)
             u == [s EXCEPT !.out.reason = reason]
         IN  IF reason # "" /\ Len(s.txPool) > 0
             THEN MineBlock([u EXCEPT !.out.pending = Len(s.txPool)], t,
                            createBlock(u, t, nonce))
             ELSE u

sensorTask(s, data) ==
    IF s.MY_ROLE # "SENSOR_NODE" /\ s.MY_ROLE # "VALIDATOR_NODE" THEN s
    ELSE addToTxPool(s, Transaction(data))

\* ------------------------------------------------------------ setup
\* s is the machine at power-on.  Mounts SPIFFS, assigns the role, starts
\* ESP-NOW (setup returns if that fails), loads the ledger and, if it loaded,
\* the pool, and creates the genesis block unless a ledger was loaded.
setup(s, t, mountOk, espOk) ==
    LET a == assignNodeRole([s EXCEPT !.spiffsInitialized = mountOk])
        b == IF a.spiffsInitialized THEN loadBlockchain(a) ELSE Ret(a, FALSE)
        loaded == b.out.ret
        c == IF loaded THEN loadTxPool(b) ELSE b
        d == IF ~loaded \/ c.blockCount = 0 THEN createGenesisBlock(c, t) ELSE c
    IN  IF ~espOk THEN a
        ELSE Ret([d EXCEPT !.lastBlockTime = t], loaded)

\* ------------------------------------------------------------ tasks
\* The two contexts that call addToTxPool: loop() on the application core and
\* the ESP-NOW receive callback in the Wi-Fi task.
TaskNames == {"loop", "callback"}

OtherTask(k) == IF k = "loop" THEN "callback" ELSE "loop"

\* Transaction txPool[TX_POOL_SIZE] as the zero-initialised global it is.
ZeroTransaction == [data |-> 0, txHash |-> ZeroHash]

\* Both contexts at rest: loop() before sensorTask, the callback not running.
\* mem is the memory of txPool[0..TX_POOL_SIZE-1] as mem[1..TX_POOL_SIZE],
\* followed by mem[TX_POOL_SIZE + 1], what lies behind the array.
TasksIdle ==
    [mem |-> [i \in 1..(TX_POOL_SIZE + 1) |-> ZeroTransaction],
     pc |-> [k \in TaskNames |-> IF k = "loop" THEN "sensorTask" ELSE "idle"],
     tx |-> [k \in TaskNames |-> ZeroTransaction],
     seen |-> [k \in TaskNames |-> 0],
     idx |-> [k \in TaskNames |-> 0],
     newBlock |-> ZeroBlock,
     inWindow |-> FALSE, late |-> {}, dropped |-> {},
     outside |-> FALSE, overwritten |-> FALSE]

\* ------------------------------------------------------------ neighbour
\* Two devices in radio range of each other.  "A" is the device of the
\* global variables, "B" the neighbour.  Their MAC addresses differ in the
\* last hexadecimal digit only, which the 16 characters kept in myAddress do
\* not include: both have the same myAddress.
Nodes == {"A", "B"}

Peer(n) == IF n = "A" THEN "B" ELSE "A"

\* The sender address a packet of node n arrives with.
MacOf(n) == IF n = "A" THEN 1 ELSE 2

\* A device that has never been switched on: RAM zeroed, no file on flash.
Factory ==
    [MY_ROLE |-> "SENSOR_NODE",
     blockchain |-> [i \in 0..(MAX_BLOCKS - 1) |-> ZeroBlock],
     blockCount |-> 0, totalBlocks |-> 0, txPool |-> << >>,
     peerList |-> << >>, lastBlockTime |-> 0, spiffsInitialized |-> FALSE,
     fileChain |-> NoChainFile, fileMeta |-> NoMetaFile,
     filePool |-> NoPoolFile, out |-> NoOut]

\* What ev keeps of a handler that ended in machine state s.
EvOf(s, op) ==
    [op |-> op, ret |-> s.out.ret, err |-> s.out.err,
     reason |-> s.out.reason, pending |-> s.out.pending,
     block |-> s.out.block, bcast |-> s.out.bcast]

\* The neighbour switched off and nothing on the air.  actor is the node
\* whose handler ran last ("-": none of the two).
NeighbourOff ==
    [node |-> Factory, ev |-> EvOf(Factory, "init"),
     net |-> [n \in Nodes |-> {}], actor |-> "-"]

\* ------------------------------------------------------------ actions
\* The variables take the machine state s; ev records the handler op.
StoreGlobals(s, op) ==
    /\ MY_ROLE' = s.MY_ROLE
    /\ blockchain' = s.blockchain
    /\ blockCount' = s.blockCount
    /\ totalBlocks' = s.totalBlocks
    /\ txPool' = s.txPool
    /\ peerList' = s.peerList
    /\ lastBlockTime' = s.lastBlockTime
    /\ spiffsInitialized' = s.spiffsInitialized
    /\ fileChain' = s.fileChain
    /\ fileMeta' = s.fileMeta
    /\ filePool' = s.filePool
    /\ roleIn' = roleIn
    /\ ev' = [op |-> op, ret |-> s.out.ret, err |-> s.out.err,
              reason |-> s.out.reason, pending |-> s.out.pending,
              block |-> s.out.block, bcast |-> s.out.bcast]

\* A handler that runs from its first statement to its last.
Store(s, op) ==
    StoreGlobals(s, op) /\ tasks' = tasks /\ neighbour' = neighbour

\* A statement of loop() or of the callback on this device.
StoreStep(s, op) == StoreGlobals(s, op) /\ neighbour' = neighbour

Init ==
    /\ phase = "boot"
    /\ now = 0
    /\ MY_ROLE = "SENSOR_NODE"
    /\ blockchain = [i \in 0..(MAX_BLOCKS - 1) |-> ZeroBlock]
    /\ blockCount = 0
    /\ totalBlocks = 0
    /\ txPool = << >>
    /\ peerList = << >>
    /\ lastBlockTime = 0
    /\ spiffsInitialized = FALSE
    /\ fileChain = NoChainFile
    /\ fileMeta = NoMetaFile
    /\ filePool = NoPoolFile
    /\ roleIn = [strategy |-> "STRATEGY_MAC_BASED", macAddr |-> myAddressBytes,
                 nodeId |-> 0]
    /\ tasks = TasksIdle
    /\ neighbour = NeighbourOff
    /\ ev = [op |-> "init", ret |-> FALSE, err |-> "none", reason |-> "",
             pending |-> 0, block |-> ZeroBlock, bcast |-> -1]

\* setup() on a node whose flash mounts and whose radio starts.
Setup ==
    /\ phase = "boot"
    /\ Store(setup(Cur, now, TRUE, TRUE), "setup")
    /\ phase' = "loop"
    /\ UNCHANGED now

\* Reset or power loss between two handlers: RAM is lost, flash is kept.
Reboot ==
    /\ phase = "loop"
    /\ Store(PowerOn(Cur), "reboot")
    /\ phase' = "boot"
    /\ now' = 0

Tick ==
    /\ phase = "loop"
    /\ now < MaxNow
    /\ now' = now + 1
    /\ Store(Cur, "tick")
    /\ UNCHANGED phase

\* Tick with the uptime bounded by maxNow.
Elapse(maxNow) ==
    /\ phase = "loop"
    /\ now < maxNow
    /\ now' = now + 1
    /\ Store(Cur, "tick")
    /\ UNCHANGED phase

\* checkRoleChangeCommand() with one of cmds on the serial line.
Console(cmds) ==
    /\ phase = "loop"
    /\ \E cmd \in cmds : Store(checkRoleChangeCommand(Cur, cmd), cmd)
    /\ UNCHANGED <<phase, now>>

\* sensorTask() when the telemetry timer (10 s) is due; the reading is one
\* of datas.
SensorTask(datas) ==
    /\ phase = "loop"
    /\ \E data \in datas : Store(sensorTask(Cur, data), "sensorTask")
    /\ UNCHANGED <<phase, now>>

\* One evaluation of the mining trigger; random() yields one of nonces.
ValidatorTask(nonces) ==
    /\ phase = "loop"
    /\ totalBlocks < MaxTotal
    /\ \E nonce \in nonces : Store(validatorTask(Cur, now, nonce), "validatorTask")
    /\ UNCHANGED <<phase, now>>

\* periodicSaveTask() when the save timer (60 s) is due.
PeriodicSaveTask ==
    /\ phase = "loop"
    /\ Store(periodicSaveTask(Cur), "periodicSaveTask")
    /\ UNCHANGED <<phase, now>>

\* The receive callback, between two handlers of the loop: a packet of one of
\* types from one of macs, carrying (if telemetry) a reading of datas.
OnDataReceived(macs, types, datas) ==
    /\ phase = "loop"
    /\ \E mac \in macs, type \in types, data \in datas :
           Store(onDataReceived(Cur, mac, type, Transaction(data)), type)
    /\ UNCHANGED <<phase, now>>

\* The firmware with one reading, one nonce and one peer.
Next ==
    \/ Setup
    \/ Reboot
    \/ Tick
    \/ Console(Commands)
    \/ SensorTask({1})
    \/ ValidatorTask({0})
    \/ PeriodicSaveTask
    \/ OnDataReceived({1}, MessageTypes, {1})

Spec == Init /\ [][Next]_vars

\* ------------------------------------------------------------ direct calls
\* Candidate blocks handed to addBlock: the block createBlock builds, with
\* its index one lower, exact or one higher, its previousHash exact or
\* foreign, and its blockHash sealed over those fields, foreign, or sealed
\* before the nonce was changed.
\* Seals names the three ways the blockHash field is filled.
Seals == {"sealed", "bogus", "tampered"}

Candidates(s, t, nonce) ==
    LET b == createBlock(s, t, nonce)
    IN  { [f EXCEPT !.blockHash =
              CASE h = "sealed" -> calculateBlockHash(f)
                [] h = "bogus" -> BogusHash
                [] OTHER -> calculateBlockHash([f EXCEPT !.nonce = nonce + 1])] :
            f \in { [b EXCEPT !.index = i, !.previousHash = p] :
                      i \in {j \in {s.totalBlocks - 1, s.totalBlocks,
                                    s.totalBlocks + 1} : j >= 0},
                      p \in {b.previousHash, BogusHash} },
            h \in Seals }

\* The mining branch of validatorTask on a candidate of Candidates.
MineCandidate(nonces) ==
    /\ phase = "loop"
    /\ totalBlocks < MaxTotal
    /\ \E nonce \in nonces :
           \E newBlock \in Candidates(Cur, now, nonce) :
               Store(MineBlock(Cur, now, newBlock), "addBlock")
    /\ UNCHANGED <<phase, now>>

\* The ledger and pool operations called directly.
NextAPI ==
    \/ Setup
    \/ Console({"c"})
    \/ SensorTask({1})
    \/ MineCandidate({0})

SpecAPI == Init /\ [][NextAPI]_vars

\* The firmware with two readings and no storage commands: the order of the
\* pool's transactions shows.
NextPool ==
    \/ Setup
    \/ Tick
    \/ Console(RoleCommands)
    \/ SensorTask(TxData)
    \/ ValidatorTask({0})
    \/ OnDataReceived({1}, {"MSG_NEW_TELEMETRY"}, TxData)

SpecPool == Init /\ [][NextPool]_vars

\* The senders heard by a node with two neighbours.
TurnMacs == {1, 2}

\* A validator and up to two announcing peers over several block times.
NextTurn ==
    \/ Setup
    \/ Elapse(MaxTurnNow)
    \/ SensorTask({1})
    \/ ValidatorTask({0})
    \/ OnDataReceived(TurnMacs, {"MSG_PEER_ANNOUNCE"}, {1})

SpecTurn == Init /\ [][NextTurn]_vars

\* The mining branch on good and bad candidates while the uptime advances.
NextMine ==
    \/ Setup
    \/ Tick
    \/ SensorTask({1})
    \/ MineCandidate({0})

SpecMine == Init /\ [][NextMine]_vars

\* ------------------------------------------------------------ network slice
\* One sender more than the peer list has room for.
NetMacs == 1..(MAX_PEERS + 1)

\* The firmware among MAX_PEERS + 1 senders of every message type, within one
\* block interval of the boot (blocks are mined on a nearly full pool).
NextNet ==
    \/ Setup
    \/ SensorTask({1})
    \/ ValidatorTask({0})
    \/ PeriodicSaveTask
    \/ OnDataReceived(NetMacs, MessageTypes, {1})

SpecNet == Init /\ [][NextNet]_vars

\* ------------------------------------------------------------ role slice
\* The characters '0'..'9' and 'A'..'F' of a MAC string.
HexBytes == (48..57) \cup (65..70)

\* The address strings "24:6F:28:AA:xB:z", cut to 16 characters as myAddress
\* is, over every x and z.
Identities ==
    {SubSeq(myAddressBytes, 1, 12) \o <<x, 66, 58, z>> : x, z \in HexBytes}

\* The largest node number found in the preferences.
MaxOrdinal == 21

\* A device at power-on with any strategy compiled in, any address and the
\* preferences empty or holding a node number.
InitRole ==
    /\ phase = "boot"
    /\ now = 0
    /\ MY_ROLE = "SENSOR_NODE"
    /\ blockchain = [i \in 0..(MAX_BLOCKS - 1) |-> ZeroBlock]
    /\ blockCount = 0
    /\ totalBlocks = 0
    /\ txPool = << >>
    /\ peerList = << >>
    /\ lastBlockTime = 0
    /\ spiffsInitialized = FALSE
    /\ fileChain = NoChainFile
    /\ fileMeta = NoMetaFile
    /\ filePool = NoPoolFile
    /\ roleIn \in [strategy : RoleStrategies, macAddr : Identities,
                    nodeId : 0..MaxOrdinal]
    /\ tasks = TasksIdle
    /\ neighbour = NeighbourOff
    /\ ev = [op |-> "init", ret |-> FALSE, err |-> "none", reason |-> "",
             pending |-> 0, block |-> ZeroBlock, bcast |-> -1]

\* assignNodeRole as setup calls it, with the peer list still empty.
AssignNodeRole ==
    /\ phase = "boot"
    /\ LET r == assignNodeRoleUnder(roleIn, peerCount, TRUE)
       IN  /\ MY_ROLE' = r.role
           /\ roleIn' = [roleIn EXCEPT !.nodeId = r.nodeId]
    /\ ev' = [ev EXCEPT !.op = "assignNodeRole"]
    /\ phase' = "loop"
    /\ UNCHANGED <<now, blockchain, blockCount, totalBlocks, txPool, peerList,
                   lastBlockTime, spiffsInitialized, fileChain, fileMeta,
                   filePool, tasks, neighbour>>

\* Reset: RAM is lost, the preferences are kept.
ResetRole ==
    /\ phase = "loop"
    /\ MY_ROLE' = "SENSOR_NODE"
    /\ ev' = [ev EXCEPT !.op = "reboot"]
    /\ phase' = "boot"
    /\ UNCHANGED <<now, blockchain, blockCount, totalBlocks, txPool, peerList,
                   lastBlockTime, spiffsInitialized, fileChain, fileMeta,
                   filePool, roleIn, tasks, neighbour>>

NextRole == AssignNodeRole \/ ResetRole

SpecRole == InitRole /\ [][NextRole]_vars

\* ------------------------------------------------------------ reading slice
\* The transaction hashes in the first txCount places of the blocks of seq.
HashesIn(seq) ==
    {seq[i].txHashes[k] : i \in DOMAIN seq, k \in 1..MAX_TX_PER_BLOCK}
        \ {ZeroHash}

\* The readings no transaction in RAM or on flash carries: the timestamp and
\* the random values of createTelemetryTransaction make each reading differ
\* from the ones this node still holds.
FreshReadings ==
    {d \in TxData :
        /\ \A i \in 1..txPoolCount : txPool[i].data # d
        /\ \A i \in 1..Len(filePool.txs) : filePool.txs[i].data # d
        /\ calculateTxHash(d) \notin HashesIn(blockchain)
        /\ calculateTxHash(d) \notin HashesIn(fileChain.blocks)}

\* The firmware with readings that never repeat, periodic saves and reboots.
NextReadings ==
    \/ Setup
    \/ Reboot
    \/ SensorTask(FreshReadings)
    \/ ValidatorTask({0})
    \/ PeriodicSaveTask

SpecReadings == Init /\ [][NextReadings]_vars

\* ------------------------------------------------------------ single node
\* A validator that hears nobody, over several block times.
NextAlone ==
    \/ Setup
    \/ Elapse(MaxTurnNow)
    \/ SensorTask(TxData)
    \/ ValidatorTask({0})

\* The trigger of validatorTask fires in the current state: an evaluation
\* now enters the mining branch.
MineDue ==
    /\ phase = "loop" /\ totalBlocks < MaxTotal
    /\ MY_ROLE = "VALIDATOR_NODE"
    /\ MiningReason(Cur, now) # "" /\ txPoolCount > 0

\* An evaluation of the trigger that fires.
TriggerFires == MineDue /\ ValidatorTask({0})

\* Weak fairness of TriggerFires, with MineDue for ENABLED <<TriggerFires>>_vars
\* (the mining branch always changes totalBlocks).
TriggerFairness == []<>(~MineDue) \/ []<><<TriggerFires>>_vars

\* loop() never ends and calls validatorTask in every iteration, 100 ms
\* apart, while millis() advances: the clock is not postponed for ever, and
\* a trigger that keeps firing is evaluated.
SpecAlone ==
    /\ Init /\ [][NextAlone]_vars
    /\ WF_vars(Elapse(MaxTurnNow))
    /\ TriggerFairness

\* ------------------------------------------------------------ two contexts
\* loop() and onDataReceived run in different FreeRTOS tasks and share
\* txPool and txPoolCount with no lock, queue or critical section between
\* them.  Here each goes through addToTxPool statement by statement:
\*     if(txPoolCount >= TX_POOL_SIZE) return false;        "checked"
\*     txPool[txPoolCount] = *tx;                            "written"
\*     txPoolCount++;  return true;
\* and loop() through validatorTask as createBlock() ("built") followed by
\* addBlock().  txPool, the pool the handlers see, is mem[1..txPoolCount].
\* late collects the transactions of the addToTxPool calls the callback made
\* from entry to return between createBlock() and addBlock(); dropped, those
\* of them in the pool when addBlock ran.
RaceReadings == 1..(TX_POOL_SIZE + 1)

\* The readings no transaction in the pool's memory, in a context's hands or
\* in a block carries; each new transaction takes the lowest of them.
UnusedReadings ==
    {d \in RaceReadings :
        /\ \A i \in 1..(TX_POOL_SIZE + 1) : tasks.mem[i].data # d
        /\ \A k \in TaskNames : tasks.tx[k].data # d
        /\ calculateTxHash(d) \notin HashesIn(blockchain)
        /\ calculateTxHash(d) \notin HashesIn(<<tasks.newBlock>>)}

NextReading == CHOOSE d \in UnusedReadings : \A e \in UnusedReadings : d <= e

\* No copy has run past the end of txPool.  Once one has, the globals behind
\* the array are overwritten and the run is not followed any further.
Intact == phase = "loop" /\ ~tasks.outside

\* The pool of count transactions in memory image mem.
PoolOf(mem, count) == [i \in 1..count |-> mem[i]]

\* Where context k goes when its addToTxPool has returned.
AfterAdmit(k) == IF k = "loop" THEN "validatorTask" ELSE "idle"

\* Context k enters addToTxPool(&tx) and passes or fails the capacity test.
AdmitCheck(k, tx, globals, op) ==
    IF Len(globals.txPool) >= TX_POOL_SIZE
    THEN /\ StoreStep(Ret(globals, FALSE), op)
         /\ tasks' = [tasks EXCEPT !.pc[k] = AfterAdmit(k)]
    ELSE /\ StoreStep(Ret(globals, TRUE), op)
         /\ tasks' = [tasks EXCEPT !.pc[k] = "checked", !.tx[k] = tx,
                                   !.seen[k] = Len(globals.txPool),
                                   !.inWindow = IF k = "callback"
                                                THEN tasks.pc["loop"] = "built"
                                                ELSE @]

\* The slots txPool[txPoolCount] can name in context k: txPoolCount is not
\* volatile, so the build may index with the value the test has read or
\* read it again.
WriteSlots(k) == {tasks.seen[k] + 1, txPoolCount + 1}

\* The values txPoolCount can have after a copy that ran past the end of the
\* array: txPoolCount is declared right behind txPool, and what the copy
\* leaves in it is the linker's and the payload's choice.
ClobberedCounts == 0..TX_POOL_SIZE

\* Context k copies its transaction into the slot.
AdmitWrite(k) ==
    /\ Intact
    /\ tasks.pc[k] = "checked"
    /\ \E i \in WriteSlots(k) :
         LET mem == [tasks.mem EXCEPT ![i] = tasks.tx[k]]
             taken == \/ i <= txPoolCount
                      \/ /\ tasks.pc[OtherTask(k)] = "written"
                         /\ tasks.idx[OtherTask(k)] = i
             t == [tasks EXCEPT !.mem = mem, !.pc[k] = "written", !.idx[k] = i,
                                !.overwritten = @ \/ taken,
                                !.outside = @ \/ i > TX_POOL_SIZE]
         IN  /\ tasks' = t
             /\ IF i > TX_POOL_SIZE
                THEN \E c \in ClobberedCounts \cup {txPoolCount} :
                         StoreStep([Cur EXCEPT !.txPool = PoolOf(mem, c)],
                                      "addToTxPool.write")
                ELSE StoreStep([Cur EXCEPT !.txPool = PoolOf(mem, txPoolCount)],
                                  "addToTxPool.write")
    /\ UNCHANGED <<phase, now>>

\* The values txPoolCount++ can store in context k: the slot index plus one
\* from a register, or the count read again plus one.
IncrementedCounts(k) == {tasks.idx[k], txPoolCount + 1}

\* Context k increments txPoolCount and returns true.
AdmitIncrement(k) ==
    /\ Intact
    /\ tasks.pc[k] = "written"
    /\ \E c \in IncrementedCounts(k) :
         /\ StoreStep(Ret([Cur EXCEPT !.txPool = PoolOf(tasks.mem, c)], TRUE),
                         "addToTxPool.increment")
         /\ tasks' = [tasks EXCEPT
                         !.pc[k] = AfterAdmit(k),
                         !.late = IF /\ k = "callback" /\ tasks.inWindow
                                     /\ tasks.pc["loop"] = "built"
                                  THEN @ \cup {tasks.tx[k]} ELSE @]
    /\ UNCHANGED <<phase, now>>

\* loop() runs sensorTask: the 10 s timer is not due, or a reading is taken
\* and addToTxPool entered.
LoopSensorTask ==
    /\ Intact
    /\ tasks.pc["loop"] = "sensorTask"
    /\ \/ /\ StoreStep(Cur, "sensorTask")
          /\ tasks' = [tasks EXCEPT !.pc["loop"] = "validatorTask"]
       \/ /\ MY_ROLE \in {"SENSOR_NODE", "VALIDATOR_NODE"}
          /\ UnusedReadings # {}
          /\ AdmitCheck("loop", Transaction(NextReading), Cur,
                        "addToTxPool.check")
    /\ UNCHANGED <<phase, now>>

\* The callback runs for a MSG_NEW_TELEMETRY packet of one of macs: the peer
\* list is updated and addToTxPool entered.
CallbackReceive(macs) ==
    /\ Intact
    /\ tasks.pc["callback"] = "idle"
    /\ UnusedReadings # {}
    /\ \E mac \in macs :
         AdmitCheck("callback", Transaction(NextReading),
                    onDataReceived(Cur, mac, "MSG_PEER_ANNOUNCE",
                                   Transaction(NextReading)),
                    "addToTxPool.check")
    /\ UNCHANGED <<phase, now>>

\* loop() runs validatorTask up to and including createBlock().
LoopCreateBlock ==
    /\ Intact
    /\ tasks.pc["loop"] = "validatorTask"
    /\ totalBlocks < MaxTotal
    /\ LET reason == MiningReason(Cur, now)
           u == [Cur EXCEPT !.out.reason = reason]
       IN  IF MY_ROLE = "VALIDATOR_NODE" /\ reason # "" /\ txPoolCount > 0
           THEN /\ StoreStep([u EXCEPT !.out.pending = txPoolCount,
                                          !.out.block = createBlock(u, now, 0)],
                                "createBlock")
                /\ tasks' = [tasks EXCEPT !.pc["loop"] = "built",
                                          !.newBlock = createBlock(u, now, 0),
                                          !.inWindow = FALSE,
                                          !.late = {}, !.dropped = {}]
           ELSE /\ StoreStep(u, "validatorTask")
                /\ tasks' = [tasks EXCEPT !.pc["loop"] = "sensorTask"]
    /\ UNCHANGED <<phase, now>>

\* loop() passes the block to addBlock and finishes validatorTask.
LoopAddBlock ==
    /\ Intact
    /\ tasks.pc["loop"] = "built"
    /\ StoreStep(MineBlock([Cur EXCEPT !.out.pending = txPoolCount], now,
                              tasks.newBlock),
                    "addBlock.commit")
    /\ tasks' = [tasks EXCEPT
                    !.pc["loop"] = "sensorTask",
                    !.dropped = {tx \in tasks.late :
                                    \E i \in 1..txPoolCount : txPool[i] = tx}]
    /\ UNCHANGED <<phase, now>>

\* The sender heard in the runs of the two contexts.
RaceMacs == {1}

NextRace ==
    \/ Setup
    \/ LoopSensorTask
    \/ AdmitWrite("loop")
    \/ AdmitIncrement("loop")
    \/ LoopCreateBlock
    \/ LoopAddBlock
    \/ CallbackReceive(RaceMacs)
    \/ AdmitWrite("callback")
    \/ AdmitIncrement("callback")

SpecRace == Init /\ [][NextRace]_vars

\* ------------------------------------------------------------ two devices
\* The machine state of node n, and the record of its last handler.
NodeState(n) == IF n = "A" THEN Cur ELSE [neighbour.node EXCEPT !.out = NoOut]

NodeEv(n) == IF n = "A" THEN ev ELSE neighbour.ev

\* Node n ends a handler in machine state s; net is what is on the air then.
PutNode(n, s, op, net) ==
    IF n = "A"
    THEN /\ StoreGlobals(s, op)
         /\ neighbour' = [neighbour EXCEPT !.net = net, !.actor = n]
         /\ tasks' = tasks
    ELSE /\ neighbour' = [node |-> s, ev |-> EvOf(s, op), net |-> net,
                          actor |-> n]
         /\ UNCHANGED <<MY_ROLE, blockchain, blockCount, totalBlocks, txPool,
                        peerList, lastBlockTime, spiffsInitialized, fileChain,
                        fileMeta, filePool, roleIn, tasks, ev>>

\* The air after node n has broadcast packet m: its neighbour may hear it,
\* unless a packet for the neighbour is still on the air; an ESP-NOW
\* broadcast is not acknowledged and m is lost then.
Sent(n, m) ==
    IF neighbour.net[Peer(n)] = {}
    THEN [neighbour.net EXCEPT ![Peer(n)] = {m}]
    ELSE neighbour.net

\* Both devices are switched on together and run setup().
TwoSetup ==
    /\ phase = "boot"
    /\ StoreGlobals(setup(Cur, now, TRUE, TRUE), "setup")
    /\ neighbour' = [node |-> setup(Factory, now, TRUE, TRUE),
                     ev |-> EvOf(setup(Factory, now, TRUE, TRUE), "setup"),
                     net |-> [n \in Nodes |-> {}], actor |-> "-"]
    /\ tasks' = tasks
    /\ phase' = "loop"
    /\ UNCHANGED now

\* The uptime of both devices advances.
TwoElapse ==
    /\ phase = "loop"
    /\ now < MaxNow
    /\ now' = now + 1
    /\ StoreGlobals(Cur, "tick")
    /\ neighbour' = [neighbour EXCEPT !.actor = "-"]
    /\ tasks' = tasks
    /\ UNCHANGED phase

\* The reading node n takes.
ReadingOf(n) == IF n = "A" THEN 1 ELSE 2

\* sensorTask() on node n: the transaction goes to the pool.  Its broadcast
\* is not followed here: the telemetry packets are the lost ones.
NodeSensorTask(n) ==
    /\ phase = "loop"
    /\ PutNode(n, sensorTask(NodeState(n), ReadingOf(n)), "sensorTask",
               neighbour.net)
    /\ UNCHANGED <<phase, now>>

\* validatorTask() on node n: a mined block's header goes on the air.
NodeValidatorTask(n) ==
    /\ phase = "loop"
    /\ NodeState(n).totalBlocks < MaxTotal
    /\ LET s == validatorTask(NodeState(n), now, 0)
       IN  PutNode(n, s, "validatorTask",
                   IF s.out.bcast >= 0
                   THEN Sent(n, [type |-> "MSG_NEW_BLOCK", data |-> s.out.bcast])
                   ELSE neighbour.net)
    /\ UNCHANGED <<phase, now>>

\* peerDiscoveryTask() on node n when the announce timer is due.
NodeAnnounce(n) ==
    /\ phase = "loop"
    /\ PutNode(n, NodeState(n), "peerDiscoveryTask",
               Sent(n, [type |-> "MSG_PEER_ANNOUNCE", data |-> 0]))
    /\ UNCHANGED <<phase, now>>

\* onDataReceived on node n for a packet of its neighbour that is on the air.
NodeReceive(n) ==
    /\ phase = "loop"
    /\ \E m \in neighbour.net[n] :
         PutNode(n,
                 onDataReceived(NodeState(n), MacOf(Peer(n)), m.type,
                                Transaction(m.data)),
                 m.type,
                 [neighbour.net EXCEPT ![n] = @ \ {m}])
    /\ UNCHANGED <<phase, now>>

NextTwo ==
    \/ TwoSetup
    \/ TwoElapse
    \/ \E n \in Nodes : NodeSensorTask(n)
    \/ \E n \in Nodes : NodeValidatorTask(n)
    \/ \E n \in Nodes : NodeAnnounce(n)
    \/ \E n \in Nodes : NodeReceive(n)

SpecTwo == Init /\ [][NextTwo]_vars

\* ------------------------------------------------------------ power loss
\* What the read of the count leaves in the uninitialised savedBlockCount
\* of loadBlockchain when the ledger file is empty: it is not assigned.
GarbageCounts == {0, 1}

\* The machine states in which a handler that can run now calls
\* saveBlockchain: the genesis block of setup, the console's save, the
\* periodic save, a block appended by validatorTask.  Their files are the
\* files as they are before the call.
SavingStates ==
    LET onFiles(s) == [s EXCEPT !.fileChain = fileChain, !.fileMeta = fileMeta,
                                !.filePool = filePool]
        booted == setup(Cur, now, TRUE, TRUE)
        mined == validatorTask(Cur, now, 0)
    IN  IF phase = "boot"
        THEN IF booted.out.ret THEN {} ELSE {onFiles(booted)}
        ELSE {Cur} \cup (IF mined.out.ret /\ totalBlocks < MaxTotal
                         THEN {onFiles(mined)} ELSE {})

\* /blockchain.dat when saveBlockchain of s is cut short: opened for writing
\* and still empty, the count and fewer block records than it will hold, or
\* complete with saveMetadata not yet begun.
InterruptedChainFiles(s) ==
    LET full == saveBlockchain(s).fileChain
    IN  {[exists |-> TRUE, count |-> g, blocks |-> << >>] : g \in GarbageCounts}
        \cup {[full EXCEPT !.blocks = SubSeq(full.blocks, 1, k)] :
                 k \in 0..Len(full.blocks)}

\* The two ledger files when saveBlockchain of s is cut short: inside the
\* ledger file with the metadata file as it was, or inside saveMetadata with
\* the ledger file complete and the metadata file opened for writing and
\* still empty.  loadMetadata reads fewer than sizeof(meta) bytes from an
\* empty metadata file and returns false as it does for a missing one, and
\* clearStorage removes either, so the empty file is written as NoMetaFile.
InterruptedStores(s) ==
    {[chain |-> f, meta |-> s.fileMeta] : f \in InterruptedChainFiles(s)}
    \cup {[chain |-> saveBlockchain(s).fileChain, meta |-> NoMetaFile]}

\* Power is lost inside a call of saveBlockchain: RAM is lost, the ledger
\* file and the metadata file are left as far as they were written, the pool
\* file as it was.
PowerLossInSave ==
    /\ \E s \in SavingStates :
          \E f \in InterruptedStores(s) :
              Store([PowerOn(s) EXCEPT !.fileChain = f.chain,
                                       !.fileMeta = f.meta], "powerLoss")
    /\ phase' = "boot"
    /\ now' = 0

\* The console commands that touch the files.
StorageCommands == {"c", "w"}

\* The firmware on a supply that can fail during a save.
NextFault ==
    \/ Setup
    \/ Reboot
    \/ PowerLossInSave
    \/ Console(StorageCommands)
    \/ SensorTask({1})
    \/ ValidatorTask({0})
    \/ PeriodicSaveTask

SpecFault == Init /\ [][NextFault]_vars

\* ------------------------------------------------------------ ledger views
\* The slots of blockchain[] that hold retained blocks.
RetainedSlots == {i \in 0..(MAX_BLOCKS - 1) : i < blockCount}

RetainedIndices == {blockchain[i].index : i \in RetainedSlots}

\* The current head, as validateBlock and createBlock address it.
HeadBlock == blockchain[(blockCount - 1) % MAX_BLOCKS]

\* ------------------------------------------------------------ claims
\* C1: in every reachable state the retained blocks form a valid chain: a
\* retained block whose index is one above another retained block's carries
\* that block's blockHash as previousHash, and the retained indices are the
\* consecutive indices ending at totalBlocks - 1.
C1_ChainValid ==
    /\ \A i, j \in RetainedSlots :
           blockchain[j].index = blockchain[i].index + 1
               => blockchain[j].previousHash = blockchain[i].blockHash
    /\ RetainedIndices =
           (totalBlocks - Cardinality(RetainedSlots))..(totalBlocks - 1)

\* C1 witness: a ledger that wrapped the buffer, was saved, and was read back
\* by setup after a reboot.
C1_Witness ==
    /\ ev.op = "setup"
    /\ ev.ret
    /\ blockCount > MAX_BLOCKS
    /\ blockchain[0].index = MAX_BLOCKS

\* The candidate of the last addBlock call carries the hash of its own fields.
Sealed(block) == calculateBlockHash(block) = block.blockHash

\* C2: addBlock rejects with IndexMismatch every candidate whose index is not
\* totalBlocks at the call; on a genesis-only ledger a sealed candidate with
\* index 1 and the genesis hash as previousHash is accepted.
C2_IndexChecked ==
    [][ev'.op = "addBlock" =>
          /\ ev'.block.index # totalBlocks
                 => ~ev'.ret /\ ev'.err = "IndexMismatch"
          /\ (/\ totalBlocks = 1 /\ blockCount = 1
              /\ ev'.block.index = 1
              /\ ev'.block.previousHash = blockchain[0].blockHash
              /\ Sealed(ev'.block))
                 => ev'.ret /\ totalBlocks' = 2]_vars

\* C2 witness: on the genesis-only ledger a sealed candidate with index 2 and
\* the right previousHash was rejected for its index.
C2_Witness ==
    /\ ev.op = "addBlock" /\ ~ev.ret /\ ev.err = "IndexMismatch"
    /\ totalBlocks = 1 /\ blockCount = 1
    /\ ev.block.index = 2
    /\ ev.block.previousHash = blockchain[0].blockHash
    /\ Sealed(ev.block)

\* C3: addBlock rejects every candidate whose blockHash differs from the hash
\* recomputed over its fields, with HashMismatch when its index and
\* previousHash are right.
C3_HashChecked ==
    [][(ev'.op = "addBlock" /\ ~Sealed(ev'.block)) =>
          /\ ~ev'.ret
          /\ (/\ ev'.block.index = totalBlocks
              /\ blockCount > 0 => ev'.block.previousHash = HeadBlock.blockHash)
                 => ev'.err = "HashMismatch"]_vars

\* C3 witness: a candidate with the right index and previousHash whose nonce
\* was changed after it was sealed was rejected for its hash.
C3_Witness ==
    /\ ev.op = "addBlock" /\ ~ev.ret /\ ev.err = "HashMismatch"
    /\ blockCount > 0
    /\ ev.block.index = totalBlocks
    /\ ev.block.previousHash = HeadBlock.blockHash
    /\ ev.block.blockHash = calculateBlockHash([ev.block EXCEPT !.nonce = @ + 1])

\* C4: on a non-empty ledger addBlock rejects every candidate whose
\* previousHash differs from the head's blockHash (LinkageMismatch when the
\* index is right); on an empty ledger previousHash is not looked at: a
\* sealed candidate with the right index is accepted.
C4_LinkageChecked ==
    [][ev'.op = "addBlock" =>
          /\ (blockCount > 0 /\ ev'.block.previousHash # HeadBlock.blockHash)
                 => /\ ~ev'.ret
                    /\ ev'.block.index = totalBlocks => ev'.err = "LinkageMismatch"
          /\ (/\ blockCount = 0
              /\ ev'.block.index = totalBlocks
              /\ Sealed(ev'.block))
                 => ev'.ret]_vars

\* C4 witness: a sealed candidate with the right index and a foreign
\* previousHash was rejected on a non-empty ledger.
C4_Witness ==
    /\ ev.op = "addBlock" /\ ~ev.ret /\ ev.err = "LinkageMismatch"
    /\ blockCount > 0
    /\ ev.block.index = totalBlocks
    /\ ev.block.previousHash = BogusHash
    /\ Sealed(ev.block)

\* The empty-ledger case of C4: a sealed candidate with a foreign previousHash
\* was accepted as block 0 after the storage was cleared.
C4_SkippedOnEmpty ==
    /\ ev.op = "addBlock" /\ ev.ret
    /\ ev.block.index = 0
    /\ ev.block.previousHash = BogusHash

\* C5: a rejected addBlock leaves the blocks, both counters, the pool and the
\* three files as they were, and no header is broadcast.
C5_RejectChangesNothing ==
    [][(ev'.op = "addBlock" /\ ~ev'.ret) =>
          /\ UNCHANGED <<blockchain, blockCount, totalBlocks, txPool,
                         fileChain, fileMeta, filePool>>
          /\ ev'.bcast = -1]_vars

\* C5 witness: a candidate was rejected while the pool held transactions and
\* the ledger file existed.
C5_Witness ==
    /\ ev.op = "addBlock" /\ ~ev.ret /\ ev.err # "ok"
    /\ txPool # << >>
    /\ fileChain.exists /\ fileMeta.exists

\* A step in which addToTxPool was called: a received telemetry packet, or
\* sensorTask on a node that senses.
AdmitStep ==
    \/ ev'.op = "MSG_NEW_TELEMETRY"
    \/ ev'.op = "sensorTask" /\ MY_ROLE # "ARCHIVE_NODE"

\* C6: addToTxPool fails, leaving the pool as it was, exactly when the pool
\* holds TX_POOL_SIZE transactions; below that it succeeds, the pool grows by
\* one and the earlier transactions keep their places before the new one;
\* the pool never holds more than TX_POOL_SIZE transactions.
C6_AdmitBounded ==
    /\ [][AdmitStep =>
            IF Len(txPool) = TX_POOL_SIZE
            THEN ~ev'.ret /\ txPool' = txPool
            ELSE /\ ev'.ret
                 /\ Len(txPool') = Len(txPool) + 1
                 /\ SubSeq(txPool', 1, Len(txPool)) = txPool]_vars
    /\ [](Len(txPool) <= TX_POOL_SIZE)

\* C6 witness: a transaction was refused by a full pool that holds two
\* different transactions.
C6_Witness ==
    /\ (ev.op = "MSG_NEW_TELEMETRY" \/ ev.op = "sensorTask")
    /\ MY_ROLE # "ARCHIVE_NODE"
    /\ ~ev.ret
    /\ Len(txPool) = TX_POOL_SIZE
    /\ txPool[1] # txPool[TX_POOL_SIZE]

LedgerJustSaved ==
    \/ ev.op = "validatorTask" /\ ev.ret
    \/ ev.op = "w"
    \/ ev.op = "periodicSaveTask" /\ blockCount > 0
    \/ ev.op = "setup" /\ ~ev.ret

\* loadBlockchain on the files as they are, from RAM as it is at power-on.
LoadedFromStore ==
    loadBlockchain([PowerOn(Cur) EXCEPT !.spiffsInitialized = TRUE])

\* C8: right after saveBlockchain, loadBlockchain on the untouched files
\* succeeds and yields the same retained blocks in the same slots, the same
\* head, the same blockCount and the same totalBlocks.
C8_SaveLoadRoundTrip ==
    LedgerJustSaved =>
        LET r == LoadedFromStore
        IN  /\ r.out.ret
            /\ r.blockCount = blockCount
            /\ r.totalBlocks = totalBlocks
            /\ \A i \in RetainedSlots : r.blockchain[i] = blockchain[i]
            /\ blockCount > 0 =>
                   r.blockchain[(r.blockCount - 1) % MAX_BLOCKS] = HeadBlock

\* C8 witness: a block was appended and saved after the buffer had wrapped.
C8_Witness ==
    /\ ev.op = "validatorTask" /\ ev.ret
    /\ blockCount > MAX_BLOCKS
    /\ fileChain.exists /\ fileMeta.exists

\* C9: clearStorage leaves the three files absent, both counters 0 and the
\* pool empty, and a second clearStorage changes nothing.
C9_ClearAll ==
    [][ev'.op = "c" =>
          /\ ~fileChain'.exists /\ ~filePool'.exists /\ ~fileMeta'.exists
          /\ blockCount' = 0 /\ totalBlocks' = 0 /\ txPool' = << >>
          /\ clearStorage(Cur)' = Cur']_vars

\* C9 witness: the storage was cleared on a node whose buffer had wrapped.
C9_Witness ==
    /\ ev.op = "c"
    /\ blockCount = 0
    /\ blockchain[0].index = MAX_BLOCKS
    /\ ~fileChain.exists

\* C10: an evaluation of the mining trigger on a validator whose pool holds
\* at least TX_POOL_SIZE - EMERGENCY_MARGIN transactions appends a block
\* built in that evaluation, whatever the time since the last block and
\* whoever's turn it is.
C10_EmergencyMining ==
    [][(/\ ev'.op = "validatorTask"
        /\ MY_ROLE = "VALIDATOR_NODE"
        /\ Len(txPool) >= TX_POOL_SIZE - EMERGENCY_MARGIN) =>
          /\ ev'.ret
          /\ ev'.reason = "Emergency"
          /\ ev'.block.index = totalBlocks
          /\ ev'.block.txCount > 0
          /\ totalBlocks' = totalBlocks + 1
          /\ HeadBlock' = ev'.block]_vars

\* C10 witness: a block was mined for the emergency reason at uptime 0 (no
\* block time has elapsed) while it was not this node's turn.
C10_Witness ==
    /\ ev.op = "validatorTask" /\ ev.ret
    /\ ev.reason = "Emergency"
    /\ now = 0
    /\ ~isMyTurnToValidate(Cur, now)

\* Offsets of millis() within one block time at which the turn is sampled.
SubTickMs == {0, 1, 29999}

\* The slot of the round robin at uptime ms among nodes participants:
\* floor(seconds / 30) mod nodes.
SlotAt(ms, nodes) == ((ms \div 1000) \div 30) % nodes

\* C11: isMyTurnToValidate is true exactly when there is no peer or the slot
\* floor(now_seconds / 30) mod (peerCount + 1) equals the last byte of the
\* node's address mod (peerCount + 1); it is constant within a block time,
\* and with two peers the slot moves to the next of 0, 1, 2 with each block
\* time.
C11_TurnFormula ==
    \A off \in SubTickMs :
        LET ms == millis(now) + off
            nodes == peerCount + 1
            lastByte == myAddressBytes[Len(myAddressBytes)]
        IN  /\ isMyTurnAt(peerCount, ms)
                  <=> (peerCount = 0 \/ SlotAt(ms, nodes) = lastByte % nodes)
            /\ isMyTurnAt(peerCount, ms) <=> isMyTurnToValidate(Cur, now)
            /\ peerCount = 2 =>
                  /\ SlotAt(ms, 3) = now % 3
                  /\ SlotAt(ms + BLOCK_TIME_MS, 3) = (SlotAt(ms, 3) + 1) % 3

\* C11 witness: with two peers the trigger found it to be this node's turn
\* in slot 1 and mined a scheduled block.
C11_Witness ==
    /\ ev.op = "validatorTask" /\ ev.ret
    /\ ev.reason = "Scheduled"
    /\ peerCount = 2
    /\ now % 3 = 1
    /\ isMyTurnToValidate(Cur, now)

\* C12: an evaluation of the mining trigger on a node whose role is not
\* VALIDATOR_NODE proposes no block, appends none, broadcasts none and
\* leaves the ledger, the pool, the files and lastBlockTime as they were.
C12_OnlyValidatorMines ==
    [][(ev'.op = "validatorTask" /\ MY_ROLE # "VALIDATOR_NODE") =>
          /\ ~ev'.ret /\ ev'.reason = "" /\ ev'.bcast = -1
          /\ ev'.block = ZeroBlock
          /\ UNCHANGED <<blockchain, blockCount, totalBlocks, txPool,
                         lastBlockTime, fileChain, fileMeta, filePool>>]_vars

\* C12 witness: the trigger was evaluated on a node switched to sensor, with
\* a full pool, a block time elapsed and the turn being this node's, and
\* nothing was mined.
C12_Witness ==
    /\ ev.op = "validatorTask" /\ ~ev.ret
    /\ MY_ROLE = "SENSOR_NODE"
    /\ Len(txPool) = TX_POOL_SIZE
    /\ millis(now) - millis(lastBlockTime) >= BLOCK_TIME_MS
    /\ isMyTurnToValidate(Cur, now)

\* The three conditions of scheduled mining, on the state the trigger is
\* evaluated in.
ScheduledDue ==
    /\ millis(now) - millis(lastBlockTime) >= BLOCK_TIME_MS
    /\ Len(txPool) > 0
    /\ isMyTurnToValidate(Cur, now)

\* C13: below the emergency threshold an evaluation of the trigger on a
\* validator mines only if a block time has elapsed since the last block
\* (the head's timestamp, and lastBlockTime), the pool is non-empty and it is
\* this node's turn; if one of the three fails nothing is proposed or
\* appended; and no evaluation builds a block from an empty pool.
C13_ScheduledMining ==
    [][ev'.op = "validatorTask" =>
          /\ (/\ MY_ROLE = "VALIDATOR_NODE"
              /\ Len(txPool) < TX_POOL_SIZE - EMERGENCY_MARGIN) =>
                 /\ ev'.ret =>
                        /\ ScheduledDue
                        /\ ev'.reason = "Scheduled"
                        /\ millis(now) - HeadBlock.timestamp * 1000
                               >= BLOCK_TIME_MS
                 /\ ~ScheduledDue =>
                        /\ ~ev'.ret /\ ev'.block = ZeroBlock
                        /\ UNCHANGED <<blockchain, blockCount, totalBlocks,
                                       txPool, lastBlockTime>>
          /\ Len(txPool) = 0 =>
                 /\ ev'.block = ZeroBlock
                 /\ UNCHANGED <<blockchain, blockCount, totalBlocks>>
          /\ ev'.ret => ev'.block.txCount > 0]_vars

\* C13 witness: with one pending transaction and a block time elapsed, the
\* trigger was evaluated in another node's slot and mined nothing.
C13_Witness ==
    /\ ev.op = "validatorTask" /\ ~ev.ret
    /\ MY_ROLE = "VALIDATOR_NODE"
    /\ Len(txPool) = 1
    /\ Len(txPool) < TX_POOL_SIZE - EMERGENCY_MARGIN
    /\ millis(now) - millis(lastBlockTime) >= BLOCK_TIME_MS
    /\ ~isMyTurnToValidate(Cur, now)

\* The other side of C13: a scheduled block was mined from a pool below the
\* emergency threshold.
C13_ScheduledMined ==
    /\ ev.op = "validatorTask" /\ ev.ret
    /\ ev.reason = "Scheduled"
    /\ ev.pending < TX_POOL_SIZE - EMERGENCY_MARGIN

\* The ledger file holds at least one block record that loadBlockchain reads
\* into blockchain[].
BlocksReadBack ==
    /\ fileChain.exists
    /\ Min(Min(fileChain.count, MAX_BLOCKS), Len(fileChain.blocks)) >= 1

\* C14: a boot that reads one or more blocks back from the ledger file
\* reports the ledger as loaded, creates no genesis block and leaves the
\* ledger file and the metadata file as they were.
C14_NoGenesisOverStoredChain ==
    [][(ev'.op = "setup" /\ BlocksReadBack) =>
          /\ ev'.ret
          /\ blockCount' > 0
          /\ UNCHANGED <<fileChain, fileMeta>>]_vars

\* The ledger the next boot ends with when it starts from the files of s.
BootFrom(s) == setup(PowerOn(s), 0, TRUE, TRUE)

\* The two ledger files are what one completed saveBlockchain leaves: the
\* count of the ledger file is the blockCount of the metadata file and the
\* ledger file holds min(count, MAX_BLOCKS) block records.
CompletedSaveOnStore ==
    /\ fileChain.exists /\ fileMeta.exists
    /\ fileChain.count = fileMeta.blockCount
    /\ fileMeta.blockCount > 0
    /\ Len(fileChain.blocks) = Min(fileChain.count, MAX_BLOCKS)

\* C15: when the node reboots or loses power, also part-way through a save
\* (ledger file just opened, between two block records, between the ledger
\* file and the metadata file), the next boot restores the ledger of the most
\* recent completed save: the same blockCount, the same totalBlocks and the
\* same blocks.
C15_SurvivesPowerLoss ==
    [][((ev'.op = "powerLoss" \/ ev'.op = "reboot") /\ CompletedSaveOnStore) =>
          LET saved == BootFrom(Cur)
              restored == BootFrom(Cur')
          IN  /\ restored.out.ret
              /\ restored.blockCount = saved.blockCount
              /\ restored.totalBlocks = saved.totalBlocks
              /\ restored.blockchain = saved.blockchain]_vars

\* The ledger file and the metadata file hold the ledger that is in RAM: the
\* count and the total, and every retained block in its slot.
StoreHoldsLedger ==
    /\ fileChain.exists /\ fileMeta.exists
    /\ fileChain.count = blockCount
    /\ fileMeta.blockCount = blockCount
    /\ fileMeta.totalBlocks = totalBlocks
    /\ Len(fileChain.blocks) = Cardinality(RetainedSlots)
    /\ \A i \in RetainedSlots : fileChain.blocks[i + 1] = blockchain[i]

\* The count and the total on flash (0 when there is no metadata file).
StoredCounters ==
    IF fileMeta.exists THEN <<fileMeta.blockCount, fileMeta.totalBlocks>>
    ELSE <<0, 0>>

\* C16: right after setup created the genesis block and right after every
\* successful append the two files hold the ledger in RAM, the new block
\* included; between two handlers of the running node the stored count and
\* total are never behind the ones in RAM.
C16_SavedOnGenesisAndAppend ==
    /\ (ev.op = "setup" /\ ~ev.ret) =>
           /\ StoreHoldsLedger
           /\ blockCount = 1 /\ fileChain.blocks[1].index = 0
    /\ (ev.op = "validatorTask" /\ ev.ret) =>
           /\ StoreHoldsLedger
           /\ \E i \in 1..Len(fileChain.blocks) : fileChain.blocks[i] = ev.block
    /\ phase = "loop" =>
           /\ StoredCounters[1] >= blockCount
           /\ StoredCounters[2] >= totalBlocks

\* C16 witness: a block was appended after the buffer had wrapped, and the
\* files hold it.
C16_Witness ==
    /\ ev.op = "validatorTask" /\ ev.ret
    /\ blockCount > MAX_BLOCKS
    /\ StoreHoldsLedger
    /\ fileChain.blocks[((blockCount - 1) % MAX_BLOCKS) + 1] = ev.block

\* C17: the count of retained blocks, in RAM (blockCount) and as persisted
\* in the metadata file, never exceeds MAX_BLOCKS, however many blocks have
\* been appended; totalBlocks alone grows past it.
C17_RetainedCountBounded ==
    /\ blockCount <= MAX_BLOCKS
    /\ fileMeta.exists => fileMeta.blockCount <= MAX_BLOCKS

\* C18: totalBlocks never decreases: not in a handler of the running node
\* other than the console's clear, and not from before a reboot or a power
\* loss to after the boot that follows it.
C18_TotalMonotonic ==
    [][/\ (ev'.op # "c" /\ ev'.op # "reboot" /\ ev'.op # "powerLoss"
           /\ phase = "loop") => totalBlocks' >= totalBlocks
       /\ (ev'.op = "reboot" \/ ev'.op = "powerLoss") =>
              BootFrom(Cur').totalBlocks >= totalBlocks]_vars

\* C19: right after a successful saveBlockchain the ledger file is a count
\* followed by exactly that many block records, in ascending order of
\* block index, also once more than MAX_BLOCKS blocks have been appended.
C19_CountThenRecordsInOrder ==
    (LedgerJustSaved /\ blockCount > 0) =>
        /\ fileChain.exists
        /\ Len(fileChain.blocks) = fileChain.count
        /\ \A i, j \in 1..Len(fileChain.blocks) :
               i < j => fileChain.blocks[i].index < fileChain.blocks[j].index

\* loadTxPool on the files as they are, from RAM as it is at power-on.
PoolLoadedFromStore ==
    loadTxPool([PowerOn(Cur) EXCEPT !.spiffsInitialized = TRUE])

\* C20: right after the console's save has called saveTxPool, loadTxPool on
\* the untouched files yields the pool that is in RAM, the same transactions
\* in the same order, for every pool size from 0 to TX_POOL_SIZE; after the
\* save of an empty pool it yields an empty pool.
C20_PoolRoundTrip ==
    ev.op = "w" =>
        LET r == PoolLoadedFromStore
        IN  /\ r.txPool = txPool
            /\ Len(r.txPool) = txPoolCount
            /\ txPoolCount > 0 => r.out.ret

\* The ledger and the pool in RAM of machine state s.
Memory(s) == <<s.blockchain, s.blockCount, s.totalBlocks, s.txPool>>

\* C21: a storage operation that fails leaves the blocks, blockCount,
\* totalBlocks and the pool in RAM as they were before the call: the
\* loadBlockchain and the loadTxPool of a boot when they return false, and a
\* save of the console or of the periodic timer that reports failure.
C21_FailedStorageOpKeepsMemory ==
    [][/\ ev'.op = "setup" =>
              LET mounted == [Cur EXCEPT !.spiffsInitialized = TRUE]
                  ledger == loadBlockchain(mounted)
                  pool == loadTxPool(mounted)
              IN  /\ ~ledger.out.ret => Memory(ledger) = Memory(mounted)
                  /\ ~pool.out.ret => Memory(pool) = Memory(mounted)
       /\ ((ev'.op = "w" \/ ev'.op = "periodicSaveTask") /\ ~ev'.ret) =>
              UNCHANGED <<blockchain, blockCount, totalBlocks, txPool>>]_vars

\* C22: every retained block with index 0 is a genesis block: its
\* previousHash is all zero and it carries no transaction.
C22_IndexZeroIsGenesis ==
    \A i \in RetainedSlots :
        blockchain[i].index = 0 =>
            /\ blockchain[i].previousHash = ZeroHash
            /\ blockchain[i].txCount = 0

\* C23: the receive callback writes neither the pool nor the peer list nor
\* the ledger: a step of onDataReceived leaves them as they were, their
\* writers being the handlers that loop() calls.
C23_CallbackWritesNothing ==
    [][ev'.op \in MessageTypes =>
          UNCHANGED <<txPool, peerList, blockchain, blockCount, totalBlocks>>]_vars

\* The message types whose case in onDataReceived only prints.
LoggedOnly == MessageTypes \ {"MSG_NEW_TELEMETRY"}

\* C24: a MSG_NEW_BLOCK, MSG_REQUEST_CHAIN or MSG_PEER_ANNOUNCE packet leaves
\* the ledger, the pool and the three files as they were; it changes at most
\* the peer list.
C24_HeaderChangesNothing ==
    [][ev'.op \in LoggedOnly =>
          UNCHANGED <<blockchain, blockCount, totalBlocks, txPool,
                      fileChain, fileMeta, filePool>>]_vars

\* C24 witness: a block header arrived at a node with a mined block, a
\* pending transaction and room neither in the ledger check nor in the pool
\* to refuse it; its sender is in the peer list.
C24_Witness ==
    /\ ev.op = "MSG_NEW_BLOCK"
    /\ totalBlocks > 1
    /\ txPoolCount > 0 /\ txPoolCount < TX_POOL_SIZE
    /\ peerCount > 0

\* No address is in the peer list twice.
PeersDistinct ==
    \A i, j \in 1..peerCount : i # j => peerList[i] # peerList[j]

\* The senders that are not in the peer list.
UnknownSenders == {mac \in NetMacs : \A i \in 1..peerCount : peerList[i] # mac}

\* C25: the peer list holds at most MAX_PEERS addresses and none twice; where
\* a packet is handled, the packet of that type from an unknown sender
\* appends the sender once while there is room and changes nothing in the
\* list once it is full or the sender is known; no step of the running node
\* removes or reorders a peer.
C25_PeerListBounded ==
    [][/\ peerCount' <= MAX_PEERS
       /\ PeersDistinct'
       /\ phase' = "loop" => SubSeq(peerList', 1, peerCount) = peerList
       /\ ev'.op \in MessageTypes =>
              \A mac \in NetMacs :
                  LET after == onDataReceived(Cur, mac, ev'.op,
                                              Transaction(1)).peerList
                  IN  IF mac \in UnknownSenders /\ peerCount < MAX_PEERS
                      THEN after = Append(peerList, mac)
                      ELSE after = peerList]_vars

\* C25 witness: a packet has just been handled with the list full and a
\* sender left that is not in it.
C25_Witness ==
    /\ ev.op = "MSG_PEER_ANNOUNCE"
    /\ peerCount = MAX_PEERS
    /\ UnknownSenders # {}
    /\ PeersDistinct

\* h * 31 + byte modulo 2^32 on the four bytes of h, lowest first.
Times31PlusByte(h, byte) ==
    LET b0 == h[1] * 31 + byte
        b1 == h[2] * 31 + (b0 \div 256)
        b2 == h[3] * 31 + (b1 \div 256)
        b3 == h[4] * 31 + (b2 \div 256)
    IN  <<b0 % 256, b1 % 256, b2 % 256, b3 % 256>>

RECURSIVE PolynomialHash(_, _)
\* h = h * 31 + byte over the first n bytes of the string, from h = 0.
PolynomialHash(str, n) ==
    IF n = 0 THEN <<0, 0, 0, 0>>
    ELSE Times31PlusByte(PolynomialHash(str, n - 1), str[n])

\* h mod 100 for h given by its four bytes: 2^8, 2^16 and 2^24 are 56, 36
\* and 16 modulo 100.
HashMod100(str) ==
    LET h == PolynomialHash(str, Len(str))
    IN  (h[1] + 56 * h[2] + 36 * h[3] + 16 * h[4]) % 100

\* Validator below 30, Sensor from 30 to 94, Archive from 95 to 99.
RoleOfValue(v) ==
    IF v < 30 THEN "VALIDATOR_NODE"
    ELSE IF v < 95 THEN "SENSOR_NODE"
    ELSE "ARCHIVE_NODE"

\* C26: under STRATEGY_MAC_BASED the role assignNodeRole assigns is the one
\* of h mod 100, h being h * 31 + byte over the address string in 32-bit
\* unsigned arithmetic: Validator below 30, Sensor below 95, else Archive;
\* under STRATEGY_RUNTIME_ELECT it is the same role for the same address.
C26_RoleByIdentityHash ==
    (ev.op = "assignNodeRole"
     /\ (roleIn.strategy = "STRATEGY_MAC_BASED"
         \/ roleIn.strategy = "STRATEGY_RUNTIME_ELECT")) =>
        MY_ROLE = RoleOfValue(HashMod100(roleIn.macAddr))

\* C26 witness: the runtime election has assigned the archive role to an
\* address whose hash wraps around 2^32 and comes to exactly 95 modulo 100.
C26_Witness ==
    /\ ev.op = "assignNodeRole"
    /\ roleIn.strategy = "STRATEGY_RUNTIME_ELECT"
    /\ HashMod100(roleIn.macAddr) = 95
    /\ MY_ROLE = "ARCHIVE_NODE"

\* An address at each edge of the three ranges has been given its role.
C26_EdgesReached ==
    /\ ev.op = "assignNodeRole"
    /\ roleIn.strategy = "STRATEGY_MAC_BASED"
    /\ HashMod100(roleIn.macAddr) = 30
    /\ MY_ROLE = "SENSOR_NODE"

\* C27: under STRATEGY_FIRST_COME a node whose stored node number is 1, 2 or
\* 3 becomes a validator, one whose number is a multiple of 10 an archive
\* and every other one a sensor; the number is set on the first boot and the
\* boots after it use the number they find.
C27_RoleByJoinOrder ==
    [][(ev'.op = "assignNodeRole"
        /\ roleIn.strategy = "STRATEGY_FIRST_COME") =>
          /\ roleIn'.nodeId >= 1
          /\ roleIn.nodeId >= 1 => roleIn'.nodeId = roleIn.nodeId
          /\ MY_ROLE' = IF roleIn'.nodeId <= 3 THEN "VALIDATOR_NODE"
                        ELSE IF roleIn'.nodeId % 10 = 0 THEN "ARCHIVE_NODE"
                        ELSE "SENSOR_NODE"]_vars

\* C28: the block createBlock builds in any state has index = totalBlocks,
\* the blockHash of the retained block with index totalBlocks - 1 as its
\* previousHash (all zero when the ledger is empty), txCount =
\* min(txPoolCount, MAX_TX_PER_BLOCK), the hashes of the txCount oldest pool
\* transactions in pool order, and a blockHash that is the hash of its
\* fields.
C28_ProposedBlock ==
    LET b == createBlock(Cur, now, 0)
        n == Min(txPoolCount, MAX_TX_PER_BLOCK)
    IN  /\ b.index = totalBlocks
        /\ blockCount = 0 => b.previousHash = ZeroHash
        /\ blockCount > 0 =>
               \E i \in RetainedSlots :
                   /\ blockchain[i].index = totalBlocks - 1
                   /\ b.previousHash = blockchain[i].blockHash
        /\ b.txCount = n
        /\ \A i \in 1..n : b.txHashes[i] = txPool[i].txHash
        /\ Sealed(b)

\* C28 witness: a validator has just mined a block out of a pool of two
\* different transactions after the buffer had wrapped: the block carries
\* the hash of the older one and not of the newer one.
C28_Witness ==
    /\ ev.op = "validatorTask" /\ ev.ret
    /\ ev.pending > MAX_TX_PER_BLOCK
    /\ blockCount > MAX_BLOCKS
    /\ ev.block.txCount = MAX_TX_PER_BLOCK
    /\ ev.block.txHashes[1] # ZeroHash
    /\ ev.block.index = totalBlocks - 1

C29_RefusedLate ==
    /\ ev.op = "addBlock" /\ ~ev.ret
    /\ ev.bcast = -1
    /\ lastBlockTime < now

\* C30: a successful append stores the new block in one slot and leaves the
\* other slots alone; once MAX_BLOCKS blocks are retained that slot is the
\* one of the retained block with the lowest index.  Afterwards the retained
\* blocks are the min(totalBlocks, MAX_BLOCKS) blocks with the highest
\* indices and the head is the block with index totalBlocks - 1.
C30_EvictsOldest ==
    [][(ev'.op = "validatorTask" /\ ev'.ret) =>
          /\ \E k \in 0..(MAX_BLOCKS - 1) :
                 /\ blockchain' = [blockchain EXCEPT ![k] = ev'.block]
                 /\ Cardinality(RetainedSlots) = MAX_BLOCKS =>
                        /\ k \in RetainedSlots
                        /\ \A i \in RetainedSlots :
                               blockchain[k].index <= blockchain[i].index
          /\ RetainedIndices' =
                 (totalBlocks' - Min(totalBlocks', MAX_BLOCKS))..(totalBlocks' - 1)
          /\ Cardinality(RetainedSlots') = Min(totalBlocks', MAX_BLOCKS)
          /\ HeadBlock'.index = totalBlocks' - 1]_vars

\* C30 witness: a block was appended to a full buffer: the oldest block is
\* gone, the one before the new block is still there, and the new block is
\* the head.
C30_Witness ==
    /\ ev.op = "validatorTask" /\ ev.ret
    /\ totalBlocks > MAX_BLOCKS
    /\ RetainedIndices = (totalBlocks - MAX_BLOCKS)..(totalBlocks - 1)
    /\ HeadBlock = ev.block

\* The hashes of the transactions recorded in the retained block of slot i.
Recorded(i) == {blockchain[i].txHashes[k] : k \in 1..blockchain[i].txCount}

\* C34: no transaction hash is recorded in two retained blocks, and the pool
\* that setup has loaded holds no transaction whose hash is recorded in a
\* retained block.
C34_RecordedOnce ==
    /\ \A i, j \in RetainedSlots : i # j => Recorded(i) \cap Recorded(j) = {}
    /\ ev.op = "setup" =>
           \A k \in 1..txPoolCount, i \in RetainedSlots :
               txPool[k].txHash \notin Recorded(i)

C36_AfterClear ==
    /\ phase = "loop" /\ ev.op = "c" /\ blockCount = 0 /\ totalBlocks = 0

\* After a setup that loaded a wrapped ledger both counters exceed MAX_BLOCKS.
C36_AfterLoad ==
    /\ phase = "loop" /\ ev.op = "setup" /\ blockCount > MAX_BLOCKS
    /\ blockCount = totalBlocks

\* C37: in every state between two handlers the block createBlock builds
\* passes validateBlock, and every validatorTask whose trigger fires appends
\* exactly one block, the one it built.
C37_ProposedNeverRejected ==
    [][/\ phase = "loop" =>
              validateBlock(Cur, createBlock(Cur, now, 0)) = "ok"
       /\ (ev'.op = "validatorTask" /\ ev'.reason # "" /\ txPoolCount > 0) =>
              /\ ev'.ret /\ ev'.err = "ok"
              /\ ev'.block.index = totalBlocks
              /\ totalBlocks' = totalBlocks + 1
              /\ blockCount' = blockCount + 1
              /\ HeadBlock' = ev'.block]_vars

\* C37 witness: the trigger fired on a ledger that had wrapped, and the block
\* was appended.
C37_Witness ==
    /\ ev.op = "validatorTask" /\ ev.reason # "" /\ ev.pending > 0
    /\ ev.ret /\ ev.err = "ok"
    /\ ev.block.index >= MAX_BLOCKS
    /\ totalBlocks = ev.block.index + 1

\* The trigger fired on an empty ledger (after clearStorage): block 0 is a
\* mined block.
C37_MinedOnEmptyLedger ==
    /\ ev.op = "validatorTask" /\ ev.ret /\ ev.block.index = 0

\* The handlers that may empty the pool of a node that does not mine:
\* clearStorage from the console and the restart.
DrainingOps == {"c", "reboot"}

\* C38: on a running node whose role is not VALIDATOR_NODE every handler but
\* clearStorage and the restart keeps the pool's transactions and can only
\* append to them; a full pool stays as it is, the transaction a sensorTask
\* or a received MSG_NEW_TELEMETRY offers is refused, and a received
\* MSG_NEW_BLOCK leaves the pool alone.
C38_NeverDrained ==
    [][(phase = "loop" /\ MY_ROLE # "VALIDATOR_NODE"
            /\ ev'.op \notin DrainingOps) =>
          /\ Len(txPool') >= Len(txPool)
          /\ SubSeq(txPool', 1, Len(txPool)) = txPool
          /\ Len(txPool) = TX_POOL_SIZE =>
                 /\ txPool' = txPool
                 /\ ev'.op \in {"sensorTask", "MSG_NEW_TELEMETRY"} => ~ev'.ret
          /\ ev'.op = "MSG_NEW_BLOCK" => txPool' = txPool]_vars

\* C38 witness: a sensor node with a full pool, the block time elapsed and
\* the last handler a received telemetry packet that was refused.
C38_Witness ==
    /\ phase = "loop" /\ MY_ROLE = "SENSOR_NODE"
    /\ Len(txPool) = TX_POOL_SIZE
    /\ millis(now) - millis(lastBlockTime) >= BLOCK_TIME_MS
    /\ ev.op = "MSG_NEW_TELEMETRY" /\ ~ev.ret

\* An archive node whose pool a received header found full and left full.
C38_ArchiveKeepsPool ==
    /\ phase = "loop" /\ MY_ROLE = "ARCHIVE_NODE"
    /\ Len(txPool) = TX_POOL_SIZE
    /\ ev.op = "MSG_NEW_BLOCK"

\* A running validator without peers whose pool is not empty, with uptime and
\* blocks left within the explored horizon.
AlonePending ==
    /\ phase = "loop" /\ MY_ROLE = "VALIDATOR_NODE" /\ Len(peerList) = 0
    /\ txPoolCount > 0
    /\ now < MaxTurnNow /\ totalBlocks < MaxTotal

\* The last handler was a validatorTask that appended a block and left the
\* pool empty.
MinedAndEmptied ==
    /\ ev.op = "validatorTask" /\ ev.ret /\ txPoolCount = 0
    /\ HeadBlock = ev.block

\* C33: on a validator without peers a non-empty pool leads to an appended
\* block and an empty pool, and a trigger evaluation at which BLOCK_TIME_MS
\* has passed since lastBlockTime with the pool non-empty is one that
\* appends the block and empties the pool.
C33_SingleNodeLiveness ==
    /\ [][(/\ ev'.op = "validatorTask"
           /\ MY_ROLE = "VALIDATOR_NODE" /\ Len(peerList) = 0
           /\ txPoolCount > 0
           /\ millis(now) - millis(lastBlockTime) >= BLOCK_TIME_MS) =>
              /\ ev'.ret /\ txPool' = << >>
              /\ totalBlocks' = totalBlocks + 1
              /\ HeadBlock' = ev'.block]_vars
    /\ (AlonePending ~> MinedAndEmptied)

\* C33 witness: a scheduled block mined by the validator without peers, from
\* a pool below the emergency threshold.
C33_Witness ==
    /\ MinedAndEmptied /\ ev.reason = "Scheduled"
    /\ Len(peerList) = 0
    /\ ev.pending < TX_POOL_SIZE - EMERGENCY_MARGIN

\* The pool holds a transaction with reading d.
PoolHolds(d) == \E i \in 1..txPoolCount : txPool[i].data = d

\* The last handler appended a block that records the hash of the
\* transaction with reading d.
CommitRecords(d) ==
    /\ ev.op = "validatorTask" /\ ev.ret
    /\ \E k \in 1..ev.block.txCount :
           ev.block.txHashes[k] = calculateTxHash(d)

\* C35: on a validator a transaction leaves the pool only in a validatorTask
\* that appends a block recording its hash, and every transaction in the
\* pool of a validator whose trigger keeps being evaluated is recorded in an
\* appended block.
C35_AcceptedGetsRecorded ==
    /\ [][\A d \in TxData :
             (/\ MY_ROLE = "VALIDATOR_NODE" /\ ev'.op = "validatorTask"
              /\ PoolHolds(d) /\ ~PoolHolds(d)') => CommitRecords(d)']_vars
    /\ \A d \in TxData : (AlonePending /\ PoolHolds(d)) ~> CommitRecords(d)

\* C39: with the two contexts interleaved inside addToTxPool the pool never
\* holds more than TX_POOL_SIZE transactions, no transaction is copied
\* outside txPool[0..TX_POOL_SIZE-1], and no copy lands on a slot that holds
\* an accepted transaction.
C39_PoolSafeWhenInterleaved ==
    /\ txPoolCount <= TX_POOL_SIZE
    /\ ~tasks.outside
    /\ ~tasks.overwritten

\* The transaction hashes block b records.
HashesOf(b) == {b.txHashes[k] : k \in 1..b.txCount}

LedgerOf(n) ==
    LET s == NodeState(n)
    IN  <<s.blockchain, s.blockCount, s.totalBlocks, s.fileChain, s.fileMeta>>

\* The newest block of node n.
HeadOf(n) ==
    LET s == NodeState(n) IN s.blockchain[(s.blockCount - 1) % MAX_BLOCKS]

\* isMyTurnToValidate() on a device whose myAddress[15] is the character id.
TurnOfId(id, peers, ms) ==
    IF peers = 0 THEN TRUE
    ELSE LET interval == BLOCK_TIME_MS \div 1000
             currentSlot == (ms \div 1000) \div interval
         IN  id % (peers + 1) = currentSlot % (peers + 1)

\* Both devices run as validators and know the same number of peers.
SameView ==
    /\ phase = "loop"
    /\ \A n \in Nodes : NodeState(n).MY_ROLE = "VALIDATOR_NODE"
    /\ Len(NodeState("A").peerList) = Len(NodeState("B").peerList)

\* C31: two validators with the same myAddress[15] that know the same number
\* of peers are on turn at the same times, and so is a device with any other
\* sixteenth character that leaves the same remainder; a validatorTask whose trigger
\* fires on one of them appends a block with that node's own totalBlocks as
\* index, whatever the other has mined; and a received MSG_NEW_BLOCK leaves
\* the receiver's ledger as it was.
C31_TurnNotExclusive ==
    [][/\ SameView =>
              /\ isMyTurnToValidate(NodeState("A"), now)
                     = isMyTurnToValidate(NodeState("B"), now)
              /\ \A id \in HexBytes :
                     id % (peerCount + 1) = myAddressBytes[16] % (peerCount + 1)
                         => TurnOfId(id, peerCount, millis(now))
                                = isMyTurnToValidate(Cur, now)
       /\ \A n \in Nodes :
              /\ (neighbour'.actor = n /\ NodeEv(n)'.op = "validatorTask"
                      /\ NodeEv(n)'.reason # "") =>
                     /\ NodeEv(n)'.ret
                     /\ NodeEv(n)'.block.index = NodeState(n).totalBlocks
                     /\ NodeState(n)'.totalBlocks = NodeState(n).totalBlocks + 1
                     /\ HeadOf(n)' = NodeEv(n)'.block
                     /\ LedgerOf(Peer(n))' = LedgerOf(Peer(n))
              /\ (neighbour'.actor = n /\ NodeEv(n)'.op = "MSG_NEW_BLOCK") =>
                     LedgerOf(n)' = LedgerOf(n)]_vars

\* C31 witness: with one peer each, in one slot in which both are on turn,
\* both validators have mined a block with index 1 (A's a scheduled one), the
\* two blocks differ, and B has received A's header after mining its own.
C31_Witness ==
    /\ SameView
    /\ Len(NodeState("A").peerList) = 1
    /\ isMyTurnToValidate(NodeState("A"), now)
    /\ isMyTurnToValidate(NodeState("B"), now)
    /\ \A n \in Nodes :
           /\ NodeState(n).totalBlocks = 2
           /\ HeadOf(n).index = 1
           /\ NodeState(n).lastBlockTime = now
    /\ HeadOf("A") # HeadOf("B")
    /\ ev.op = "validatorTask" /\ ev.reason = "Scheduled"
    /\ neighbour.actor = "B" /\ neighbour.ev.op = "MSG_NEW_BLOCK"

====
